---- MODULE Spec2Model ----
(***************************************************************************)
(* A model of the weapon event engine of yap (libraries/weapon):           *)
(* the EventStore (streams, listeners, sync states), its DirtyTracker,     *)
(* the per-stream EventStreamStore and the IndexedDB sync driver.          *)
(***************************************************************************)
EXTENDS Integers, Sequences, FiniteSets, TLC

\* ------------------------------------------------------------------ bounds

\* Longest per-device log the model lets an engine or a target hold.
MaxLen == 3
\* Largest count in a clock passed to update_sync_clock
MaxCount == 1
\* Most calls of update_sync_clock in a row
MaxUpdates == 2
\* Longest per-device log in the runs that need no longer one.
ShortLen == 2
\* Largest wall-clock reading (chrono::Utc::now()) of the model.
MaxTime == 2
\* Number of listener keys the registry hands out in the model.
MaxKeys == 2
\* Largest within_device_events_index an offered batch may carry.
MaxIdx == 4
\* Longest batch offered in one call.
MaxBatch == 2
\* Longest log of the other device in the runs that exercise the sync.
RemoteLen == 2

\* Stream ids ("s" = 1) and device ids ("A" = 1, "B" = 2); Device: Ord is <.
Streams == {1, 2}
Devices == {1, 2}
Times == 0..MaxTime
Payloads == {1, 2}
Keys == 1..MaxKeys

\* Option<ListenerKey>: None, Some(k).
None == <<>>
Some(k) == <<k>>
Modifiers == {None} \cup {Some(k) : k \in Keys}

\* ------------------------------------------------------------ data model

\* EventType<E>: User(E) | Meta(MetaEvent); MetaEvent is an empty enum, so
\* every value is User(payload).
User(p) == [tag |-> "User", payload |-> p]

\* Timestamped<EventType<E>>.
Timestamped(t, i, e) ==
  [timestamp |-> t, within_device_events_index |-> i, event |-> e]

\* DirtyState.
Clean == [tag |-> "Clean", key |-> 0]
DirtyAll == [tag |-> "DirtyAll", key |-> 0]
DirtyExcept(k) == [tag |-> "DirtyExcept", key |-> k]

\* SyncTarget: the IndexedDB driver records its state under SyncTarget::Opfs.
SyncTargets == {"Supabase", "Opfs"}

\* RefCell<EventStore>: no borrow is alive, or a RefMut is.
Free == "free"
Exclusive == "exclusive"

VARIABLES
  streams,        \* EventStore.streams: stream -> DirtyTracker<StreamStore>
  listeners,      \* EventStore.listeners: the keys of the registered callbacks
  keys_issued,    \* how many keys the registry has handed out
  sync_states,    \* EventStore.sync_states: target -> SyncState
  now,            \* the wall clock
  db,             \* the IndexedDB object store: records in insertion order
  sync,           \* the running sync_with_indexeddb call (its position)
  pending,        \* the running flush_notifications calls, innermost last:
                  \* the closures each got from its drain and has yet to invoke
  borrow,         \* the RefCell around the EventStore: Free or Exclusive
  invoked,        \* history: the closures the last operation invoked
  last,           \* history: the last engine operation and its return value
  window,         \* history: per stream, the mutations since the previous drain
  drained,        \* history: what the last drain saw and returned
  snap,           \* history: the state at the end of a successful sync
  engines         \* the engines of the tabs sharing the target, when several
                  \* are followed: per engine its EventStore and running sync

vars == <<streams, listeners, keys_issued, sync_states, now, db, sync,
          pending, borrow, invoked, last, window, drained, snap, engines>>

\* ---------------------------------------------- EventStreamStore (one stream)

\* The store of one stream: the map Device -> Vec<T>, held as its entries
\* [device, log] in the order the devices were first inserted.
EmptyStore == <<>>

RECURSIVE EntryOf(_, _)
EntryOf(store, d) ==
  IF store = <<>> THEN 0
  ELSE IF store[Len(store)].device = d THEN Len(store)
  ELSE EntryOf(SubSeq(store, 1, Len(store) - 1), d)

\* events().get(device), the empty log when the device has none.
LogOf(store, d) ==
  IF EntryOf(store, d) = 0 THEN <<>> ELSE store[EntryOf(store, d)].log

len_device(store, d) == Len(LogOf(store, d))

StoreDevices(store) == {store[i].device : i \in 1..Len(store)}

num_events_per_device(store) ==
  [d \in StoreDevices(store) |-> len_device(store, d)]

\* The batch is contiguous and its first index is the device's length.
valid_to_add_events(store, d, batch) ==
  \A i \in 1..Len(batch) :
    batch[i].within_device_events_index = len_device(store, d) + i - 1

\* The same check on a batch of events whose payloads are still JSON.
valid_to_add_event_jsons(store, d, batch) ==
  \A i \in 1..Len(batch) :
    batch[i].within_device_events_index = len_device(store, d) + i - 1

\* A log with an event put before the first event of a later timestamp (or
\* of the same timestamp and a larger index).
RECURSIVE insert_by_timestamp(_, _)
insert_by_timestamp(log, e) ==
  IF log = <<>> THEN <<e>>
  ELSE LET h == Head(log)
       IN IF \/ e.timestamp < h.timestamp
             \/ /\ e.timestamp = h.timestamp
                /\ e.within_device_events_index < h.within_device_events_index
            THEN <<e>> \o log
            ELSE <<h>> \o insert_by_timestamp(Tail(log), e)

RECURSIVE insert_all_by_timestamp(_, _)
insert_all_by_timestamp(log, batch) ==
  IF batch = <<>> THEN log
  ELSE insert_all_by_timestamp(insert_by_timestamp(log, Head(batch)),
                               Tail(batch))

\* store_add_device_events keeping each device's log in timestamp order.
store_add_device_events_by_timestamp(store, d, batch) ==
  IF batch = <<>> THEN store
  ELSE IF EntryOf(store, d) = 0
    THEN Append(store, [device |-> d,
                        log |-> insert_all_by_timestamp(<<>>, batch)])
    ELSE [store EXCEPT ![EntryOf(store, d)].log =
                          insert_all_by_timestamp(@, batch)]

\* Appends a validated batch to the device's log; returns the new store.
store_add_device_events(store, d, batch) ==
  IF batch = <<>> THEN store
  ELSE IF EntryOf(store, d) = 0
    THEN Append(store, [device |-> d, log |-> batch])
    ELSE [store EXCEPT ![EntryOf(store, d)].log = @ \o batch]

\* ------------------------------------------------------- merged iteration

\* head_before with equal timestamps left undecided.
head_before_by_timestamp(a, b) ==
  Head(a.log).timestamp < Head(b.log).timestamp

\* head_before as the derived lexical order of Timestamped would decide it:
\* by timestamp, then by within_device_events_index, then by device.
head_before_lexical(a, b) ==
  LET x == Head(a.log)
      y == Head(b.log)
  IN \/ x.timestamp < y.timestamp
     \/ /\ x.timestamp = y.timestamp
        /\ \/ x.within_device_events_index < y.within_device_events_index
           \/ /\ x.within_device_events_index = y.within_device_events_index
              /\ a.device < b.device

\* Whether the head of entry a comes before the head of entry b in the merged
\* order: by timestamp, then by device, then by within_device_events_index.
head_before(a, b) ==
  LET x == Head(a.log)
      y == Head(b.log)
  IN \/ x.timestamp < y.timestamp
     \/ /\ x.timestamp = y.timestamp
        /\ \/ a.device < b.device
           \/ /\ a.device = b.device
              /\ x.within_device_events_index < y.within_device_events_index

MinOf(S) == CHOOSE x \in S : \A y \in S : x <= y

\* The entry whose head the k-way merge yields next: the first of the map's
\* entries whose head no other head precedes.
next_entry(store) ==
  LET live == {i \in 1..Len(store) : store[i].log # <<>>}
  IN MinOf({i \in live : \A j \in live \ {i} : ~head_before(store[j], store[i])})

\* The k-way merge of the per-device logs, each event with its device.
RECURSIVE merged(_)
merged(store) ==
  IF \A i \in 1..Len(store) : store[i].log = <<>> THEN <<>>
  ELSE LET i == next_entry(store)
       IN <<[device |-> store[i].device, event |-> Head(store[i].log)]>>
            \o merged([store EXCEPT ![i].log = Tail(@)])

\* A sequence with every element equal to its predecessor dropped.
RECURSIVE without_repeats(_)
without_repeats(seq) ==
  IF Len(seq) <= 1 THEN seq
  ELSE IF seq[1] = seq[2] THEN without_repeats(Tail(seq))
  ELSE <<seq[1]>> \o without_repeats(Tail(seq))

\* iter() yielding an event equal to the one before it only once.
iter_without_repeats(store) ==
  without_repeats([k \in 1..Len(merged(store)) |-> merged(store)[k].event])

\* iter(): the events of the k-way merge.
iter(store) ==
  [k \in 1..Len(merged(store)) |-> merged(store)[k].event]

\* AppState::apply_event of the application; an order-sensitive reducer stands
\* for it.
apply_event(a, ev) == (a * 3 + ev.timestamp + 2 * ev.event.payload) % 101

\* state(initial): the fold of the merged iteration through initial.
RECURSIVE fold_events(_, _)
fold_events(a, evs) ==
  IF evs = <<>> THEN a ELSE fold_events(apply_event(a, Head(evs)), Tail(evs))

state(store, initial) == fold_events(initial, iter(store))

\* ------------------------------------------------------------ DirtyTracker

\* A default tracker that starts Clean.
DefaultTrackerClean ==
  [store |-> EmptyStore, dirty_state |-> Clean, loaded_at_least_once |-> FALSE]

\* impl Default for DirtyTracker: a new stream starts DirtyAll, not loaded.
DefaultTracker ==
  [store |-> EmptyStore, dirty_state |-> DirtyAll, loaded_at_least_once |-> FALSE]

\* mark_dirty with the collapse to DirtyAll forgotten when another listener
\* writes to a stream that is DirtyExcept.
mark_dirty_keeps_except(dirty_state, modifier) ==
  CASE dirty_state = Clean /\ modifier # None -> DirtyExcept(modifier[1])
    [] dirty_state.tag = "DirtyExcept" /\ modifier # None ->
         DirtyExcept(dirty_state.key)
    [] OTHER -> DirtyAll

\* DirtyOnDerefMut::mark_dirty: the new dirty state after a write through a
\* handle acquired with the modifier.
\* mark_dirty that forgets who made the change: everyone is to be notified.
mark_dirty_for_all(dirty_state, modifier) == DirtyAll

mark_dirty(dirty_state, modifier) ==
  CASE dirty_state = Clean /\ modifier # None -> DirtyExcept(modifier[1])
    [] dirty_state.tag = "DirtyExcept" /\ modifier = Some(dirty_state.key) ->
         DirtyExcept(dirty_state.key)
    [] dirty_state = Clean /\ modifier = None -> DirtyAll
    [] OTHER -> DirtyAll

\* DirtyTracker::mark_loaded on one tracker: <<tracker', changed>>.
tracker_mark_loaded(tracker, modifier) ==
  IF ~tracker.loaded_at_least_once
    THEN [tracker |-> [tracker EXCEPT !.loaded_at_least_once = TRUE,
                                      !.dirty_state = mark_dirty(@, modifier)],
          ret |-> TRUE]
    ELSE [tracker |-> tracker, ret |-> FALSE]

\* -------------------------------------------------------------- EventStore

\* get_or_insert_default inserting a default tracker whether or not the
\* stream exists.
get_or_insert_default_afresh(strs, stream) ==
  [s \in DOMAIN strs \cup {stream} |->
     IF s = stream THEN DefaultTracker ELSE strs[s]]

\* get_or_insert_default inserting a default tracker for every stream that
\* is absent.
get_or_insert_default_everywhere(strs, stream) ==
  [s \in DOMAIN strs \cup Streams \cup {stream} |->
     IF s \in DOMAIN strs THEN strs[s] ELSE DefaultTracker]

\* get_or_insert_default: the streams map with the stream present.
get_or_insert_default(strs, stream) ==
  IF stream \in DOMAIN strs THEN strs ELSE strs @@ (stream :> DefaultTracker)

\* add_device_events writing through the handle before it validates.
add_device_events_marking_first(strs, stream, device, events, modifier) ==
  LET s1 == get_or_insert_default(strs, stream)
      s2 == [s1 EXCEPT ![stream].dirty_state = mark_dirty(@, modifier)]
  IN IF ~valid_to_add_events(s1[stream].store, device, events)
       THEN [streams |-> s2, ret |-> 0]
       ELSE [streams |->
               [s2 EXCEPT ![stream].store =
                             store_add_device_events(@, device, events)],
             ret |-> Len(events)]

\* EventStore::add_device_events: [streams, ret]. The stream is created when
\* absent; an invalid batch is dropped before any write through the handle,
\* a valid one is appended through it (which marks the stream dirty).
add_device_events(strs, stream, device, events, modifier) ==
  LET s1 == get_or_insert_default(strs, stream)
  IN IF ~valid_to_add_events(s1[stream].store, device, events)
       THEN [streams |-> s1, ret |-> 0]
       ELSE [streams |->
               [s1 EXCEPT ![stream].dirty_state = mark_dirty(@, modifier),
                          ![stream].store =
                             store_add_device_events(@, device, events)],
             ret |-> Len(events)]

\* add_raw_event taking the next index from the stream's number of events
\* instead of the device's.
add_raw_event_indexed_by_stream(strs, stream, device, payload, modifier, t) ==
  LET s1 == get_or_insert_default(strs, stream)
      n == len_device(s1[stream].store, 1) + len_device(s1[stream].store, 2)
      event == Timestamped(t, n, User(payload))
  IN add_device_events(s1, stream, device, <<event>>, modifier)

\* add_raw_event with the caller's modifier dropped on the way to the handle.
add_raw_event_unattributed(strs, stream, device, payload, modifier, t) ==
  LET s1 == get_or_insert_default(strs, stream)
      event == Timestamped(t, len_device(s1[stream].store, device), User(payload))
  IN add_device_events(s1, stream, device, <<event>>, None)

\* EventStore::add_raw_event at wall-clock t: [streams, ret].
add_raw_event(strs, stream, device, payload, modifier, t) ==
  LET s1 == get_or_insert_default(strs, stream)
      event == Timestamped(t, len_device(s1[stream].store, device), User(payload))
  IN add_device_events(s1, stream, device, <<event>>, modifier)

\* mark_loaded creating the stream when it is absent.
mark_loaded_creating(strs, stream, modifier) ==
  LET s1 == get_or_insert_default(strs, stream)
      r == tracker_mark_loaded(s1[stream], modifier)
  IN [streams |-> [s1 EXCEPT ![stream] = r.tracker], ret |-> r.ret]

\* EventStore::mark_loaded: [streams, ret].
mark_loaded(strs, stream, modifier) ==
  IF stream \notin DOMAIN strs THEN [streams |-> strs, ret |-> FALSE]
  ELSE LET r == tracker_mark_loaded(strs[stream], modifier)
       IN [streams |-> [strs EXCEPT ![stream] = r.tracker], ret |-> r.ret]

RECURSIVE SortedSeq(_)
SortedSeq(S) ==
  IF S = {} THEN <<>> ELSE <<MinOf(S)>> \o SortedSeq(S \ {MinOf(S)})

\* The closures drain schedules for one stream: none when it is Clean, else
\* one per registered listener but the excluded one.
stream_notifications(stream, dirty_state, ls) ==
  IF dirty_state = Clean THEN <<>>
  ELSE LET exclude_key ==
             IF dirty_state.tag = "DirtyExcept" THEN Some(dirty_state.key) ELSE None
           keys == SortedSeq({k \in ls : exclude_key # Some(k)})
       IN [i \in 1..Len(keys) |-> [key |-> keys[i], stream |-> stream]]

RECURSIVE concat_notifications(_, _, _)
concat_notifications(ids, strs, ls) ==
  IF ids = <<>> THEN <<>>
  ELSE stream_notifications(Head(ids), strs[Head(ids)].dirty_state, ls)
         \o concat_notifications(Tail(ids), strs, ls)

\* drain_due_notifications with the reset to Clean forgotten.
drain_without_reset(strs, ls) ==
  [streams |-> strs,
   ret |-> concat_notifications(SortedSeq(DOMAIN strs), strs, ls),
   called |-> {}]

\* EventStore::drain_due_notifications: [streams, ret, called]; ret is the
\* Vec of closures (each a [key, stream]) and called the closures it invoked
\* itself: it boxes them and calls none.
drain_due_notifications(strs, ls) ==
  [streams |-> [s \in DOMAIN strs |-> [strs[s] EXCEPT !.dirty_state = Clean]],
   ret |-> concat_notifications(SortedSeq(DOMAIN strs), strs, ls),
   called |-> {}]

\* EventStore::vector_clock.
vector_clock(strs) ==
  [s \in DOMAIN strs |-> num_events_per_device(strs[s].store)]

\* timestamp_of_earliest_unsynced_event of a stream's store: the smallest
\* timestamp among, for each device with more local events than the remote
\* count, the event at index = remote count; None when there is none.
timestamp_of_earliest_unsynced_event(store, remote_device_counts) ==
  LET remote(d) == IF d \in DOMAIN remote_device_counts
                     THEN remote_device_counts[d] ELSE 0
      unsynced == {i \in 1..Len(store) :
                     Len(store[i].log) > remote(store[i].device)}
      stamps == {store[i].log[remote(store[i].device) + 1].timestamp :
                   i \in unsynced}
  IN IF stamps = {} THEN None ELSE Some(MinOf(stamps))

\* The loop of get_timestamp_of_earliest_unsynced_event keeping the candidate
\* of the stream visited last.
RECURSIVE earliest_over_replacing(_, _, _, _)
earliest_over_replacing(order, strs, remote_clock, earliest) ==
  IF order = <<>> THEN earliest
  ELSE LET stream_id == Head(order)
           device_sync_map == IF stream_id \in DOMAIN remote_clock
                                THEN remote_clock[stream_id] ELSE <<>>
           candidate == timestamp_of_earliest_unsynced_event(
                          strs[stream_id].store, device_sync_map)
       IN earliest_over_replacing(Tail(order), strs, remote_clock,
            IF candidate = None THEN earliest ELSE candidate)

get_timestamp_of_earliest_unsynced_event_of_last_stream(strs, ss, target) ==
  earliest_over_replacing(SortedSeq(DOMAIN strs), strs,
    IF target \in DOMAIN ss THEN ss[target].remote_clock ELSE <<>>, None)

\* The loop of get_timestamp_of_earliest_unsynced_event over the streams
\* still to visit, with the earliest timestamp found so far.
RECURSIVE earliest_over(_, _, _, _)
earliest_over(order, strs, remote_clock, earliest) ==
  IF order = <<>> THEN earliest
  ELSE LET stream_id == Head(order)
           device_sync_map == IF stream_id \in DOMAIN remote_clock
                                THEN remote_clock[stream_id] ELSE <<>>
           candidate == timestamp_of_earliest_unsynced_event(
                          strs[stream_id].store, device_sync_map)
       IN earliest_over(Tail(order), strs, remote_clock,
            IF earliest = None THEN candidate
            ELSE IF candidate = None THEN earliest
            ELSE IF candidate[1] < earliest[1] THEN candidate
            ELSE earliest)

\* EventStore::get_timestamp_of_earliest_unsynced_event.
get_timestamp_of_earliest_unsynced_event(strs, ss, target) ==
  earliest_over(SortedSeq(DOMAIN strs), strs,
    IF target \in DOMAIN ss THEN ss[target].remote_clock ELSE <<>>, None)

\* -------------------------------------------------------------------- JSON

\* Event::to_json / Event::from_json of the application's payload type: a
\* payload is written as a JSON number; [ok, value].
payload_to_json(p) == [number |-> p]
payload_from_json(json) ==
  IF DOMAIN json = {"number"} /\ json.number \in Payloads
    THEN [ok |-> TRUE, value |-> json.number]
    ELSE [ok |-> FALSE, value |-> 0]

\* to_json of EventType writing the payload without the variant's tag.
event_type_to_json_untagged(e) == payload_to_json(e.payload)

\* impl Event for EventType<E>: the externally tagged enum {"User": payload}.
event_type_to_json(e) == [User |-> payload_to_json(e.payload)]
event_type_from_json(json) ==
  IF DOMAIN json = {"User"} /\ payload_from_json(json.User).ok
    THEN [ok |-> TRUE, value |-> User(payload_from_json(json.User).value)]
    ELSE [ok |-> FALSE, value |-> User(0)]

\* A JSON value that is no event.
BadJson == [string |-> "?"]

\* serde of chrono::DateTime<Utc>: the instant as RFC 3339 text, one text per
\* instant; [ok, value].
timestamp_to_json(t) == [rfc3339 |-> t]
timestamp_from_json(json) ==
  IF DOMAIN json = {"rfc3339"} /\ json.rfc3339 \in Times
    THEN [ok |-> TRUE, value |-> json.rfc3339]
    ELSE [ok |-> FALSE, value |-> 0]

\* serde of usize: a JSON number; [ok, value].
index_to_json(i) == [number |-> i]
index_from_json(json) ==
  IF DOMAIN json = {"number"} /\ json.number \in Nat
    THEN [ok |-> TRUE, value |-> json.number]
    ELSE [ok |-> FALSE, value |-> 0]

\* impl Event for Timestamped<E>, E = EventType<payload>: to_json writes the
\* three fields of the struct, the event by its own to_json; from_json reads
\* the struct with the event still JSON, then the event by its from_json.
timestamped_to_json(x) ==
  [timestamp |-> timestamp_to_json(x.timestamp),
   within_device_events_index |-> index_to_json(x.within_device_events_index),
   event |-> event_type_to_json(x.event)]
timestamped_from_json(json) ==
  IF /\ DOMAIN json = {"timestamp", "within_device_events_index", "event"}
     /\ timestamp_from_json(json.timestamp).ok
     /\ index_from_json(json.within_device_events_index).ok
     /\ event_type_from_json(json.event).ok
    THEN [ok |-> TRUE,
          value |-> Timestamped(
                      timestamp_from_json(json.timestamp).value,
                      index_from_json(json.within_device_events_index).value,
                      event_type_from_json(json.event).value)]
    ELSE [ok |-> FALSE, value |-> Timestamped(0, 0, User(0))]

\* The position in the batch of the first event whose JSON does not
\* deserialise, 0 when all do.
RECURSIVE first_failure(_, _)
first_failure(batch, i) ==
  IF i > Len(batch) THEN 0
  ELSE IF ~event_type_from_json(batch[i].event).ok THEN i
  ELSE first_failure(batch, i + 1)

\* add_device_event_jsons appending as it deserialises: the events before the
\* first failure are stored when the call fails.
store_add_device_event_jsons_as_it_goes(store, d, batch) ==
  LET k == first_failure(batch, 1)
      good == [i \in 1..(IF k = 0 THEN Len(batch) ELSE k - 1) |->
                 Timestamped(batch[i].timestamp,
                             batch[i].within_device_events_index,
                             event_type_from_json(batch[i].event).value)]
  IN [ok |-> k = 0,
      store |-> store_add_device_events(store, d, good),
      n |-> IF k = 0 THEN Len(batch) ELSE 0]

\* add_device_event_jsons of the stream's store: every JSON event is
\* deserialised, and the batch is appended only when all of them succeed;
\* [ok, store, n].
store_add_device_event_jsons(store, d, batch) ==
  IF \E i \in 1..Len(batch) : ~event_type_from_json(batch[i].event).ok
    THEN [ok |-> FALSE, store |-> store, n |-> 0]
    ELSE [ok |-> TRUE,
          store |-> store_add_device_events(store, d,
                      [i \in 1..Len(batch) |->
                         Timestamped(batch[i].timestamp,
                                     batch[i].within_device_events_index,
                                     event_type_from_json(batch[i].event).value)]),
          n |-> Len(batch)]

\* add_device_events_jsons with the validation of the indices skipped.
add_device_events_jsons_unvalidated(strs, stream, device, events, modifier) ==
  IF stream \notin DOMAIN strs THEN [streams |-> strs, ret |-> 0]
  ELSE LET r == store_add_device_event_jsons(strs[stream].store, device, events)
       IN [streams |->
             [strs EXCEPT ![stream].dirty_state = mark_dirty(@, modifier),
                          ![stream].store = r.store],
           ret |-> r.n]

\* EventStore::add_device_events_jsons: [streams, ret]. An absent stream is
\* not created; an invalid batch is dropped before any write through the
\* handle; a valid one marks the stream dirty, also when its JSON fails to
\* deserialise.
add_device_events_jsons(strs, stream, device, events, modifier) ==
  IF stream \notin DOMAIN strs THEN [streams |-> strs, ret |-> 0]
  ELSE IF ~valid_to_add_event_jsons(strs[stream].store, device, events)
    THEN [streams |-> strs, ret |-> 0]
  ELSE LET r == store_add_device_event_jsons(strs[stream].store, device, events)
       IN [streams |->
             [strs EXCEPT ![stream].dirty_state = mark_dirty(@, modifier),
                          ![stream].store = r.store],
           ret |-> r.n]

\* ------------------------------------------------------------- sync states

\* impl Default for SyncState.
DefaultSyncState ==
  [remote_clock |-> <<>>, last_sync_started |-> None,
   last_sync_finished |-> None, last_sync_error |-> None]

\* sync_states.entry(target).or_default().
sync_state_entry(ss, target) ==
  IF target \in DOMAIN ss THEN ss[target] ELSE DefaultSyncState

\* The sync states with the target's entry set.
sync_state_put(ss, target, st) ==
  [t \in DOMAIN ss \cup {target} |-> IF t = target THEN st ELSE ss[t]]

\* join_clocks keeping the count of the first clock wherever it has one.
join_clocks_keeping(clock1, clock2) ==
  [s \in DOMAIN clock1 \cup DOMAIN clock2 |->
     IF s \notin DOMAIN clock1 THEN clock2[s]
     ELSE LET entry == IF s \in DOMAIN clock2 THEN clock2[s] ELSE <<>>
          IN [d \in DOMAIN clock1[s] \cup DOMAIN entry |->
                IF d \in DOMAIN clock1[s] THEN clock1[s][d] ELSE entry[d]]]

\* join_clocks taking the count of the second clock wherever it has one.
join_clocks_overwriting(clock1, clock2) ==
  [s \in DOMAIN clock1 \cup DOMAIN clock2 |->
     IF s \notin DOMAIN clock2 THEN clock1[s]
     ELSE LET entry == IF s \in DOMAIN clock1 THEN clock1[s] ELSE <<>>
          IN [d \in DOMAIN entry \cup DOMAIN clock2[s] |->
                IF d \notin DOMAIN clock2[s] THEN entry[d]
                ELSE clock2[s][d]]]

\* join_clocks: the element-wise maximum of two clocks.
join_clocks(clock1, clock2) ==
  [s \in DOMAIN clock1 \cup DOMAIN clock2 |->
     IF s \notin DOMAIN clock2 THEN clock1[s]
     ELSE LET entry == IF s \in DOMAIN clock1 THEN clock1[s] ELSE <<>>
          IN [d \in DOMAIN entry \cup DOMAIN clock2[s] |->
                IF d \notin DOMAIN clock2[s] THEN entry[d]
                ELSE IF d \notin DOMAIN entry THEN clock2[s][d]
                ELSE IF entry[d] < clock2[s][d] THEN clock2[s][d]
                ELSE entry[d]]]

\* EventStore::update_sync_clock.
update_sync_clock(ss, target, new_clock) ==
  sync_state_put(ss, target,
    [sync_state_entry(ss, target) EXCEPT
       !.remote_clock = join_clocks(@, new_clock)])

\* EventStore::mark_sync_started at wall-clock t.
mark_sync_started(ss, target, t) ==
  sync_state_put(ss, target,
    [sync_state_entry(ss, target) EXCEPT !.last_sync_started = Some(t)])

\* mark_sync_finished recording no error whatever the outcome.
mark_sync_finished_without_error(ss, target, error, t) ==
  sync_state_put(ss, target,
    [sync_state_entry(ss, target) EXCEPT !.last_sync_finished = Some(t),
                                         !.last_sync_error = None])

\* EventStore::mark_sync_finished at wall-clock t.
mark_sync_finished(ss, target, error, t) ==
  sync_state_put(ss, target,
    [sync_state_entry(ss, target) EXCEPT !.last_sync_finished = Some(t),
                                         !.last_sync_error = error])

\* ------------------------------------------------- the IndexedDB database

\* The object store: per (stream, device) its EventRecords in the order they
\* were added (the auto-incremented primary key).
EmptyDb == [s \in Streams |-> [d \in Devices |-> <<>>]]

\* Event::version / deversion of the application's payload type.
version(p) == [V1 |-> p]
deversion(v) == v.V1

\* The EventRecord add_event stores for an event: its index and the JSON of
\* the versioned event.
event_record(ev) ==
  [event_index |-> ev.within_device_events_index,
   event |-> [timestamp |-> ev.timestamp,
              within_device_events_index |-> ev.within_device_events_index,
              event |-> [User |-> version(ev.event.payload)]]]

\* The event get_all_stream_events reads back from an EventRecord.
record_event(rec) ==
  Timestamped(rec.event.timestamp, rec.event.within_device_events_index,
              User(deversion(rec.event.event.User)))

db_indices(dbs, s, d) ==
  {dbs[s][d][i].event_index : i \in 1..Len(dbs[s][d])}

\* add_event on an object store without the unique index: every add is
\* stored.
add_event_without_index(dbs, s, d, ev) ==
  [ok |-> TRUE, db |-> [dbs EXCEPT ![s][d] = Append(@, event_record(ev))]]

\* EventDatabase::add_event: the unique index on (user, stream, device,
\* event_index) fails the add of an index already stored; [ok, db].
add_event(dbs, s, d, ev) ==
  IF ev.within_device_events_index \in db_indices(dbs, s, d)
    THEN [ok |-> FALSE, db |-> dbs]
    ELSE [ok |-> TRUE, db |-> [dbs EXCEPT ![s][d] = Append(@, event_record(ev))]]

\* EventDatabase::get_all_stream_events: device -> its events in the order
\* the cursor yields them.
get_all_stream_events(dbs, s) ==
  [d \in {e \in Devices : dbs[s][e] # <<>>} |->
     [i \in 1..Len(dbs[s][d]) |-> record_event(dbs[s][d][i])]]

\* The counts get_clock reports for one stream, and whether the indices of
\* one of its devices have a gap (get_clock panics on it).
device_counts(dbs, s) ==
  [d \in {e \in Devices : dbs[s][e] # <<>>} |->
     Cardinality(db_indices(dbs, s, d))]

has_gap(dbs, s) ==
  \E d \in Devices :
    db_indices(dbs, s, d) # 0..(Cardinality(db_indices(dbs, s, d)) - 1)

\* get_clock counting the indices it finds without looking for a gap.
get_clock_counting(dbs, only_stream) ==
  IF \A s \in Streams, d \in Devices : dbs[s][d] = <<>>
    THEN [panic |-> FALSE, clock |-> <<>>]
  ELSE IF only_stream # None
    THEN [panic |-> FALSE,
          clock |-> [s \in {only_stream[1]} |-> device_counts(dbs, s)]]
  ELSE [panic |-> FALSE,
        clock |-> [s \in {t \in Streams : \E d \in Devices : dbs[t][d] # <<>>}
                     |-> device_counts(dbs, s)]]

\* EventDatabase::get_clock(only_stream): [panic, clock]. An object store
\* with no record at all yields the empty clock.
get_clock(dbs, only_stream) ==
  IF \A s \in Streams, d \in Devices : dbs[s][d] = <<>>
    THEN [panic |-> FALSE, clock |-> <<>>]
  ELSE IF only_stream # None
    THEN [panic |-> has_gap(dbs, only_stream[1]),
          clock |-> [s \in {only_stream[1]} |-> device_counts(dbs, s)]]
  ELSE [panic |-> \E s \in Streams : has_gap(dbs, s),
        clock |-> [s \in {t \in Streams : \E d \in Devices : dbs[t][d] # <<>>}
                     |-> device_counts(dbs, s)]]

\* ------------------------------------------------------- the sync driver

\* The loop of load_from_indexeddb over the devices with the fresh events
\* appended without a check, and all of the target's events taken as fresh.
RECURSIVE load_devices_unfiltered(_, _, _, _, _)
load_devices_unfiltered(strs, device_events, ds, stream, modifier) ==
  IF ds = <<>> THEN strs
  ELSE LET d == Head(ds)
           s1 == get_or_insert_default(strs, stream)
           s2 == [s1 EXCEPT ![stream].dirty_state = mark_dirty(@, modifier),
                            ![stream].store =
                               store_add_device_events(@, d, device_events[d])]
       IN load_devices_unfiltered(s2, device_events, Tail(ds), stream, modifier)

\* The loop of load_from_indexeddb over the devices (in the BTreeMap's
\* order): the events whose index is at least the engine's length for the
\* device, in the order the target returned them, go to add_device_events.
RECURSIVE load_devices(_, _, _, _, _)
load_devices(strs, device_events, ds, stream, modifier) ==
  IF ds = <<>> THEN strs
  ELSE LET d == Head(ds)
           current_num_events ==
             IF stream \in DOMAIN strs
               THEN len_device(strs[stream].store, d) ELSE 0
           fresh(e) == e.within_device_events_index >= current_num_events
           r == add_device_events(strs, stream, d,
                                  SelectSeq(device_events[d], fresh), modifier)
       IN load_devices(r.streams, device_events, Tail(ds), stream, modifier)

\* load_from_indexeddb: the engine's streams after the pull of one stream.
load_from_indexeddb(strs, dbs, stream, modifier) ==
  LET device_events == get_all_stream_events(dbs, stream)
  IN load_devices(strs, device_events, SortedSeq(DOMAIN device_events),
                  stream, modifier)

\* The position of a sync_with_indexeddb call: pc is the await it is
\* suspended at. filter is stream_id_to_sync; todo the streams still to pull
\* or to save; stream, devices, counts, device, queue and written are the
\* locals of save_to_indexeddb. signals are the streams for which the call
\* has posted the message on the BroadcastChannel. disturbed, pre and wrote
\* are history: whether the application or another writer acted during the
\* call, the events the engine and the target held when it began, and the
\* streams of which the call has written an event to the target; retry is
\* whether the call follows, with nothing done in between, calls with the
\* same filter that returned an error, and origin the events the engine and
\* the target held when the first of those began. other is a second
\* sync_with_indexeddb call of the engine, suspended at an await while this
\* one proceeds (<<>> when there is none), and overlapped is whether the
\* call has run beside another.
NoSync ==
  [pc |-> "idle", filter |-> None, modifier |-> None, todo |-> <<>>,
   stream |-> 0, devices |-> <<>>, counts |-> <<>>, device |-> 0,
   queue |-> <<>>, written |-> 0, disturbed |-> FALSE, pre |-> <<>>,
   wrote |-> {}, signals |-> {}, origin |-> <<>>, retry |-> FALSE,
   other |-> <<>>, overlapped |-> FALSE]

\* A sync call returns: the call suspended beside it, when there is one, is
\* the call left running.
resumed(sy) == IF sy.other = <<>> THEN NoSync ELSE sy.other

\* The end of save_to_indexeddb posting the message for the stream whether or
\* not anything was written.
broadcast_always(sy) == [sy EXCEPT !.signals = @ \cup {sy.stream}]

\* The end of save_to_indexeddb, after the loop over the devices: when
\* something was written the message for the stream is posted on the
\* BroadcastChannel; whether posting worked is only logged.
broadcast_written(sy) ==
  IF sy.written > 0 THEN [sy EXCEPT !.signals = @ \cup {sy.stream}] ELSE sy

\* save_to_indexeddb is entered for the next stream of todo: a stream the
\* engine lacks is skipped, else the devices of the engine's vector clock are
\* taken and the call awaits the target's clock; after the last stream the
\* sync awaits the refreshed clock.
RECURSIVE next_stream(_, _)
next_stream(sy, strs) ==
  IF sy.todo = <<>> THEN [sy EXCEPT !.pc = "refresh"]
  ELSE IF Head(sy.todo) \notin DOMAIN strs
    THEN next_stream([sy EXCEPT !.todo = Tail(@)], strs)
  ELSE [sy EXCEPT !.pc = "save_clock",
                  !.stream = Head(sy.todo),
                  !.todo = Tail(@),
                  !.devices = SortedSeq(DOMAIN vector_clock(strs)[Head(sy.todo)]),
                  !.written = 0]

\* The device loop of save_to_indexeddb writing all of a device's events,
\* whatever the target already holds.
RECURSIVE next_device_rewriting(_, _)
next_device_rewriting(sy, strs) ==
  IF sy.devices = <<>> THEN next_stream(broadcast_written(sy), strs)
  ELSE LET d == Head(sy.devices)
           events_to_write == LogOf(strs[sy.stream].store, d)
       IN IF events_to_write = <<>>
            THEN next_device_rewriting([sy EXCEPT !.devices = Tail(@)], strs)
            ELSE [sy EXCEPT !.pc = "write", !.device = d,
                            !.devices = Tail(@), !.queue = events_to_write]

\* The device loop of save_to_indexeddb with the event at the target's count
\* left out of the events to write.
RECURSIVE next_device_skipping(_, _)
next_device_skipping(sy, strs) ==
  IF sy.devices = <<>> THEN next_stream(broadcast_written(sy), strs)
  ELSE LET d == Head(sy.devices)
           device_events_in_db ==
             IF d \in DOMAIN sy.counts THEN sy.counts[d] ELSE 0
           unsynced(e) == e.within_device_events_index > device_events_in_db
           events_to_write == SelectSeq(LogOf(strs[sy.stream].store, d), unsynced)
       IN IF events_to_write = <<>>
            THEN next_device_skipping([sy EXCEPT !.devices = Tail(@)], strs)
            ELSE [sy EXCEPT !.pc = "write", !.device = d,
                            !.devices = Tail(@), !.queue = events_to_write]

\* The device loop of save_to_indexeddb up to its next await: for the next
\* device the engine's events whose index is at least the target's count are
\* collected; a device with none is passed over, else the call awaits the
\* add of the first of them.
RECURSIVE next_device(_, _)
next_device(sy, strs) ==
  IF sy.devices = <<>> THEN next_stream(broadcast_written(sy), strs)
  ELSE LET d == Head(sy.devices)
           device_events_in_db ==
             IF d \in DOMAIN sy.counts THEN sy.counts[d] ELSE 0
           unsynced(e) == e.within_device_events_index >= device_events_in_db
           events_to_write == SelectSeq(LogOf(strs[sy.stream].store, d), unsynced)
       IN IF events_to_write = <<>>
            THEN next_device([sy EXCEPT !.devices = Tail(@)], strs)
            ELSE [sy EXCEPT !.pc = "write", !.device = d,
                            !.devices = Tail(@), !.queue = events_to_write]

\* The save phase begins: the streams to save are the one asked for, or all
\* the engine holds.
begin_save(sy, strs) ==
  next_stream([sy EXCEPT !.todo = IF sy.filter = None
                                    THEN SortedSeq(DOMAIN strs)
                                    ELSE <<sy.filter[1]>>], strs)

\* ---------------------------------------------------------- initial state

\* No other engine is followed: the engine of streams, sync_states and sync is
\* the only one.
NoEngines == <<>>

\* history: no sync call has succeeded since the last mutation (NoSnap); the
\* history of the sync calls is left unrecorded (SnapOff).
NoSnap == [taken |-> FALSE]
SnapOff == <<>>
Forgotten(sn) == IF sn = SnapOff THEN SnapOff ELSE NoSnap

\* history: a sync call was abandoned and nothing has been done since.
DroppedSnap == [taken |-> FALSE, dropped |-> TRUE]
WasDropped(sn) == "dropped" \in DOMAIN sn

\* history: the last sync call returned an error, nothing was done during it
\* and nothing has been done since.
WasFailed(sn) ==
  /\ sn # SnapOff
  /\ "undisturbed" \in DOMAIN sn
  /\ sn.undisturbed

\* history: a stream that does not exist has the dirty state Absent.
Absent == [tag |-> "Absent", key |-> 0]
DirtyOf(strs, stream) ==
  IF stream \in DOMAIN strs THEN strs[stream].dirty_state ELSE Absent

\* history: an operation and its return value.
Op(op, ret) ==
  [op |-> op, ret |-> ret, rejected |-> FALSE, failed |-> 0, args |-> <<>>]

\* history: a call that dropped its batch as invalid and returned 0.
Rejected(op) ==
  [op |-> op, ret |-> 0, rejected |-> TRUE, failed |-> 0, args |-> <<>>]

\* history: a call whose batch passed the validation and whose event number
\* k was the first whose JSON did not deserialise.
Failed(op, ret, k) ==
  [op |-> op, ret |-> ret, rejected |-> FALSE, failed |-> k, args |-> <<>>]

\* history: an operation with the arguments it was called with.
Called(op, ret, args) ==
  [op |-> op, ret |-> ret, rejected |-> FALSE, failed |-> 0, args |-> args]

\* history: the stores of the streams, without their dirty tracking.
StoresOf(strs) == [s \in DOMAIN strs |-> [store |-> strs[s].store]]

\* history: a sync call learns that the application or another writer acted
\* while it was suspended.
Disturbed(sy) ==
  IF sy.pc = "idle" \/ sy.pre = <<>> THEN sy ELSE [sy EXCEPT !.disturbed = TRUE]

\* history: the mutations of a stream since the previous drain: the modifiers
\* they were made with, and whether the stream was created since.
EmptyWindow == [mods |-> {}, created |-> FALSE]
NoWindow == [s \in Streams |-> EmptyWindow]

NoDrain ==
  [done |-> FALSE, repeated |-> FALSE, window |-> NoWindow, dirty |-> <<>>,
   listeners |-> {}]

\* EventStore::default(), an empty target, no operation made yet.
Init ==
  /\ streams = <<>>
  /\ listeners = {}
  /\ keys_issued = 0
  /\ engines = NoEngines
  /\ sync_states = <<>>
  /\ now = 0
  /\ db = EmptyDb
  /\ sync = NoSync
  /\ pending = <<>>
  /\ borrow = Free
  /\ invoked = {}
  /\ last = Op("default", 0)
  /\ window = NoWindow
  /\ drained = NoDrain
  /\ snap = NoSnap

\* The same state, with the history of the mutations between drains left
\* unrecorded.
WindowOff == <<>>

InitUnwatched ==
  /\ streams = <<>>
  /\ listeners = {}
  /\ keys_issued = 0
  /\ engines = NoEngines
  /\ sync_states = <<>>
  /\ now = 0
  /\ db = EmptyDb
  /\ sync = NoSync
  /\ pending = <<>>
  /\ borrow = Free
  /\ invoked = {}
  /\ last = Op("default", 0)
  /\ window = WindowOff
  /\ drained = NoDrain
  /\ snap = NoSnap

\* The same state, with the history of the sync calls left unrecorded too.
InitUnrecorded ==
  /\ streams = <<>>
  /\ listeners = {}
  /\ keys_issued = 0
  /\ engines = NoEngines
  /\ sync_states = <<>>
  /\ now = 0
  /\ db = EmptyDb
  /\ sync = NoSync
  /\ pending = <<>>
  /\ borrow = Free
  /\ invoked = {}
  /\ last = Op("default", 0)
  /\ window = WindowOff
  /\ drained = NoDrain
  /\ snap = SnapOff

\* The same state, with the history of the mutations between drains kept
\* and the history of the sync calls left unrecorded.
InitTraced ==
  /\ streams = <<>>
  /\ listeners = {}
  /\ keys_issued = 0
  /\ engines = NoEngines
  /\ sync_states = <<>>
  /\ now = 0
  /\ db = EmptyDb
  /\ sync = NoSync
  /\ pending = <<>>
  /\ borrow = Free
  /\ invoked = {}
  /\ last = Op("default", 0)
  /\ window = NoWindow
  /\ drained = NoDrain
  /\ snap = SnapOff

\* history: the arguments of a call, kept in the runs that keep no history
\* of the sync calls.
ArgsOf(args) == IF snap = SnapOff THEN args ELSE <<>>

\* The modifiers a caller can pass: None, or a key the registry has issued.
IssuedModifiers == {None} \cup {Some(k) : k \in 1..keys_issued}

\* history: the window of a stream after a call that may have created the
\* stream and, when wrote, has written through a handle.
Touched(w, stream, modifier, wrote) ==
  IF w = WindowOff THEN w
  ELSE [w EXCEPT ![stream] =
          [mods |-> IF wrote THEN @.mods \cup {modifier} ELSE @.mods,
           created |-> @.created \/ stream \notin DOMAIN streams]]

\* ----------------------------------------------------------------- actions

\* A slot map without versions: the key of the first free slot, whether or
\* not it was handed out before.
slotmap_insert_reusing(ls, issued) ==
  MinOf({k \in 1..(issued + 1) : k \notin ls})

\* SlotMap::insert of the listeners map: slots are versioned, so the key
\* differs from every key handed out before; keys are numbered as issued.
slotmap_insert(ls, issued) == issued + 1

\* The wall clock advances.
Tick ==
  /\ now < MaxTime
  /\ now' = now + 1
  /\ UNCHANGED <<streams, listeners, keys_issued, engines, sync_states, db, sync,
                 pending, borrow, invoked, last, window, drained, snap>>

\* EventStore::register_listener: the registry hands out a key never used
\* before.
RegisterListener ==
  LET key == slotmap_insert(listeners, keys_issued)
  IN
  /\ key <= MaxKeys
  /\ keys_issued' = IF key > keys_issued THEN key ELSE keys_issued
  /\ UNCHANGED engines
  /\ listeners' = listeners \cup {key}
  /\ last' = Op("register_listener", key)
  /\ drained' = NoDrain
  /\ invoked' = {}
  /\ UNCHANGED <<streams, sync_states, now, db, sync, pending, borrow, window, snap>>

\* EventStore::unregister_listener(token).
UnregisterListener(token) ==
  /\ token \in 1..keys_issued
  /\ listeners' = listeners \ {token}
  /\ last' = Op("unregister_listener", 0)
  /\ drained' = NoDrain
  /\ invoked' = {}
  /\ UNCHANGED <<streams, keys_issued, engines, sync_states, now, db, sync, pending, borrow,
                 window, snap>>

\* EventStore::add_device_events(stream, device, events, modifier).
AddDeviceEvents(stream, device, events, modifier) ==
  LET r == add_device_events(streams, stream, device, events, modifier)
  IN /\ modifier \in IssuedModifiers
     /\ len_device(r.streams[stream].store, device) <= MaxLen
     /\ streams' = r.streams
     /\ last' = IF valid_to_add_events(
                       get_or_insert_default(streams, stream)[stream].store,
                       device, events)
                  THEN Op("add_device_events", r.ret)
                  ELSE Rejected("add_device_events")
     /\ window' = Touched(window, stream, modifier,
                          r.ret > 0 \/ events = <<>>)
     /\ snap' = Forgotten(snap)
     /\ sync' = Disturbed(sync)
     /\ drained' = NoDrain
     /\ invoked' = {}
     /\ UNCHANGED <<listeners, keys_issued, engines, sync_states, now, db, pending, borrow>>

\* EventStore::add_device_events_jsons(stream, device, events, modifier).
AddDeviceEventsJsons(stream, device, events, modifier) ==
  LET r == add_device_events_jsons(streams, stream, device, events, modifier)
      valid == /\ stream \in DOMAIN streams
               /\ valid_to_add_event_jsons(streams[stream].store, device, events)
  IN /\ modifier \in IssuedModifiers
     /\ stream \in DOMAIN streams =>
          len_device(r.streams[stream].store, device) <= MaxLen
     /\ streams' = r.streams
     /\ last' = IF stream \notin DOMAIN streams
                  THEN Op("add_device_events_jsons", r.ret)
                ELSE IF ~valid THEN Rejected("add_device_events_jsons")
                ELSE Failed("add_device_events_jsons", r.ret,
                            first_failure(events, 1))
     /\ window' = IF valid THEN Touched(window, stream, modifier, TRUE)
                           ELSE window
     /\ snap' = Forgotten(snap)
     /\ sync' = Disturbed(sync)
     /\ drained' = NoDrain
     /\ invoked' = {}
     /\ UNCHANGED <<listeners, keys_issued, engines, sync_states, now, db, pending, borrow>>

\* EventStore::add_raw_event(stream, device, payload, modifier).
AddRawEvent(stream, device, payload, modifier) ==
  LET r == add_raw_event(streams, stream, device, payload, modifier, now)
  IN /\ modifier \in IssuedModifiers
     /\ len_device(r.streams[stream].store, device) <= MaxLen
     /\ streams' = r.streams
     /\ last' = Called("add_raw_event", 0,
                   ArgsOf([stream |-> stream, device |-> device,
                           payload |-> payload, modifier |-> modifier]))
     /\ window' = Touched(window, stream, modifier, r.ret > 0)
     /\ snap' = Forgotten(snap)
     /\ sync' = Disturbed(sync)
     /\ drained' = NoDrain
     /\ invoked' = {}
     /\ UNCHANGED <<listeners, keys_issued, engines, sync_states, now, db, pending, borrow>>

\* EventStore::update_sync_clock(target, new_clock); the history keeps the
\* clock recorded before the call, the clock passed and how many calls were
\* made in a row.
UpdateSyncClock(target, new_clock) ==
  /\ sync_states' = update_sync_clock(sync_states, target, new_clock)
  /\ last' = Called("update_sync_clock", 0,
                [target |-> target,
                 old |-> sync_state_entry(sync_states, target).remote_clock,
                 new |-> new_clock,
                 calls |-> IF last.op = "update_sync_clock"
                             THEN last.args.calls + 1 ELSE 1])
  /\ drained' = NoDrain
  /\ invoked' = {}
  /\ UNCHANGED <<streams, listeners, keys_issued, engines, now, db, sync, pending, borrow,
                 window, snap>>

\* EventStore::mark_loaded(stream, modifier).
MarkLoaded(stream, modifier) ==
  LET r == mark_loaded(streams, stream, modifier)
  IN /\ modifier \in IssuedModifiers
     /\ streams' = r.streams
     /\ last' = Called("mark_loaded", r.ret,
                   ArgsOf([stream |-> stream, modifier |-> modifier]))
     /\ window' = IF stream \in DOMAIN streams
                    THEN Touched(window, stream, modifier, r.ret)
                    ELSE window
     /\ snap' = IF r.ret THEN Forgotten(snap) ELSE snap
     /\ sync' = IF r.ret THEN Disturbed(sync) ELSE sync
     /\ drained' = NoDrain
     /\ invoked' = {}
     /\ UNCHANGED <<listeners, keys_issued, engines, sync_states, now, db, pending, borrow>>

\* EventStore::drain_due_notifications.
Drain ==
  LET r == drain_due_notifications(streams, listeners)
  IN /\ streams' = r.streams
     /\ last' = Op("drain_due_notifications", r.ret)
     /\ drained' = [done |-> TRUE,
                    repeated |-> last.op = "drain_due_notifications",
                    window |-> window,
                    dirty |-> [s \in DOMAIN streams |-> streams[s].dirty_state],
                    listeners |-> listeners]
     /\ window' = IF window = WindowOff THEN WindowOff ELSE NoWindow
     /\ invoked' = r.called
     /\ UNCHANGED <<listeners, keys_issued, engines, sync_states, now, db, sync,
                    pending, borrow, snap>>

\* flush_notifications taking the closures from the drain inside the loop
\* header: the RefMut lives until the loop ends.
flush_notifications_borrowing_through(strs, ls) ==
  LET r == drain_due_notifications(strs, ls)
  IN [streams |-> r.streams, queue |-> r.ret, holds |-> TRUE]

\* Weapon::flush_notifications up to its loop: the store is borrowed, drained
\* and released within one statement; [streams, queue, holds], holds telling
\* whether the RefMut is still alive when the loop begins.
flush_notifications(strs, ls) ==
  LET r == drain_due_notifications(strs, ls)
  IN [streams |-> r.streams, queue |-> r.ret, holds |-> FALSE]

\* No closure of the innermost flush_notifications call is running.
NotRunning == <<>>

\* A listener callback is running.
Running == pending # <<>> /\ pending[Len(pending)].running # NotRunning

\* Weapon::flush_notifications is entered, by the application or by a running
\* callback: borrow_mut, drain, and the closures are kept for the loop.
Flush ==
  LET r == flush_notifications(streams, listeners)
  IN /\ pending = <<>> \/ Running
     /\ borrow = Free
     /\ streams' = r.streams
     /\ pending' = Append(pending, [queue |-> r.queue, running |-> NotRunning,
                                    holds |-> r.holds])
     /\ borrow' = IF r.holds THEN Exclusive ELSE Free
     /\ last' = Op("flush_notifications", 0)
     /\ drained' = NoDrain
     /\ window' = IF window = WindowOff THEN WindowOff ELSE NoWindow
     /\ invoked' = {}
     /\ UNCHANGED <<listeners, keys_issued, engines, sync_states, now, db, sync, snap>>

\* The loop of flush_notifications calls the next closure.
CallbackStart ==
  /\ pending # <<>>
  /\ ~Running
  /\ pending[Len(pending)].queue # <<>>
  /\ pending' = [pending EXCEPT ![Len(pending)] =
                   [queue |-> Tail(@.queue), running |-> Head(@.queue),
                    holds |-> @.holds]]
  /\ invoked' = {Head(pending[Len(pending)].queue)}
  /\ last' = Op("callback", 0)
  /\ UNCHANGED <<streams, listeners, keys_issued, engines, sync_states, now, db, sync,
                 borrow, window, drained, snap>>

\* The running closure returns to the loop.
CallbackReturn ==
  /\ Running
  /\ pending' = [pending EXCEPT ![Len(pending)].running = NotRunning]
  /\ invoked' = {}
  /\ last' = Op("callback returned", 0)
  /\ UNCHANGED <<streams, listeners, keys_issued, engines, sync_states, now, db, sync,
                 borrow, window, drained, snap>>

\* The JavaScript function a listener calls throws: call0 returns Err, which
\* the listener discards, and the closure returns to the loop.
CallbackThrows ==
  /\ Running
  /\ pending' = [pending EXCEPT ![Len(pending)].running = NotRunning]
  /\ invoked' = {}
  /\ last' = Op("callback threw", 0)
  /\ UNCHANGED <<streams, listeners, keys_issued, engines, sync_states, now, db, sync,
                 borrow, window, drained, snap>>

\* The running closure panics: nothing catches the panic, so it leaves the
\* loop of flush_notifications and every caller above it (by unwinding, or
\* by the abort of a wasm32 build); the closures the loops still held are
\* dropped uninvoked.
CallbackPanics ==
  /\ Running
  /\ pending' = <<>>
  /\ borrow' = Free
  /\ invoked' = {}
  /\ last' = Called("callback panicked", 0,
                [left |-> pending[Len(pending)].queue])
  /\ UNCHANGED <<streams, listeners, keys_issued, engines, sync_states, now, db, sync,
                 window, drained, snap>>

\* The loop of flush_notifications is over: the call returns and what it
\* still held of the store is dropped.
FlushEnd ==
  /\ pending # <<>>
  /\ ~Running
  /\ pending[Len(pending)].queue = <<>>
  /\ pending' = SubSeq(pending, 1, Len(pending) - 1)
  /\ borrow' = IF pending[Len(pending)].holds THEN Free ELSE borrow
  /\ invoked' = {}
  /\ last' = Op("flush_notifications returned", 0)
  /\ UNCHANGED <<streams, listeners, keys_issued, engines, sync_states, now, db, sync,
                 window, drained, snap>>

\* EventStore::get_raw(stream): a read through a shared borrow.
GetRaw(stream) ==
  /\ last' = Op("get_raw", IF stream \in DOMAIN streams THEN 1 ELSE 0)
  /\ invoked' = {}
  /\ UNCHANGED <<streams, listeners, keys_issued, engines, sync_states, now, db, sync,
                 pending, borrow, window, drained, snap>>

\* The event with index i of a device other than the engine's own, as the
\* engine that made it stored and sent it.
RemoteEvent(d, i) == Timestamped(0, i, User(d))

\* Another engine (another tab, another device's session) saves the next
\* event of device d to the shared IndexedDB database: EventDatabase::add_event
\* called by its save_to_indexeddb.
OtherTabWrites(stream, d) ==
  LET r == add_event(db, stream, d, RemoteEvent(d, Len(db[stream][d])))
  IN /\ Len(db[stream][d]) < MaxLen
     /\ r.ok
     /\ db' = r.db
     /\ snap' = Forgotten(snap)
     /\ sync' = Disturbed(sync)
     /\ UNCHANGED <<streams, listeners, keys_issued, engines, sync_states, now,
                    pending, borrow,
                    invoked, last, window, drained>>

\* sync_with_indexeddb(store, database, stream_id_to_sync, modifier) up to
\* its first await: mark_sync_started.
SyncStart(filter, modifier) ==
  /\ sync.pc = "idle"
  /\ modifier \in IssuedModifiers
  /\ sync_states' = mark_sync_started(sync_states, "Opfs", now)
  /\ sync' = [NoSync EXCEPT
                !.pc = IF filter = None THEN "pull_clock" ELSE "pull",
                !.filter = filter,
                !.modifier = modifier,
                !.todo = filter,
                !.pre = IF snap = SnapOff THEN <<>>
                        ELSE [streams |-> StoresOf(streams), db |-> db],
                !.retry = WasFailed(snap) /\ snap.filter = filter,
                !.origin = IF snap = SnapOff THEN <<>>
                           ELSE IF WasFailed(snap) /\ snap.filter = filter
                             THEN snap.origin
                           ELSE [streams |-> StoresOf(streams), db |-> db]]
  /\ snap' = IF snap = SnapOff THEN SnapOff
             ELSE IF snap.taken /\ snap.filter = filter
               THEN [snap EXCEPT !.round = 2]
             ELSE IF WasDropped(snap) THEN snap ELSE NoSnap
  /\ last' = Op("mark_sync_started", 0)
  /\ drained' = NoDrain
  /\ invoked' = {}
  /\ UNCHANGED <<streams, listeners, keys_issued, engines, now, db, pending, borrow,
                 window>>

\* sync_with_indexeddb called while another call of the engine is suspended
\* at an await: mark_sync_started, and the new call proceeds to its first
\* await beside the other.
SyncStartOverlapping(filter, modifier) ==
  /\ sync.pc \in {"pull_clock", "pull", "save_clock", "write", "refresh"}
  /\ sync.other = <<>>
  /\ modifier \in IssuedModifiers
  /\ sync_states' = mark_sync_started(sync_states, "Opfs", now)
  /\ sync' = [NoSync EXCEPT
                !.pc = IF filter = None THEN "pull_clock" ELSE "pull",
                !.filter = filter,
                !.modifier = modifier,
                !.todo = filter,
                !.overlapped = TRUE,
                !.other = [sync EXCEPT !.overlapped = TRUE]]
  /\ snap' = Forgotten(snap)
  /\ last' = Op("mark_sync_started", 0)
  /\ drained' = NoDrain
  /\ invoked' = {}
  /\ UNCHANGED <<streams, listeners, keys_issued, engines, now, db, pending, borrow,
                 window>>

\* The executor polls the other of two overlapping sync calls: the one that
\* was proceeding stays suspended at its await.
SyncSwitch ==
  /\ sync.other # <<>>
  /\ sync' = [sync.other EXCEPT !.other = [sync EXCEPT !.other = <<>>]]
  /\ UNCHANGED <<streams, listeners, keys_issued, engines, sync_states, now, db,
                 pending, borrow, invoked, last, window, drained, snap>>

\* The sync call never returns: get_clock panicked on a gap in the indices.
Panicked == [NoSync EXCEPT !.pc = "panicked"]

\* sync of all streams: get_clock(None) returns the streams to pull.
SyncPullClock ==
  LET r == get_clock(db, None)
      ids == SortedSeq(DOMAIN r.clock)
  IN /\ sync.pc = "pull_clock"
     /\ sync' = IF r.panic THEN Panicked
                ELSE IF ids = <<>> THEN begin_save(sync, streams)
                ELSE [sync EXCEPT !.pc = "pull", !.todo = ids]
     /\ UNCHANGED <<streams, listeners, keys_issued, engines, sync_states, now, db,
                    pending, borrow, invoked, last, window, drained, snap>>

\* load_from_indexeddb of the next stream to pull, from the return of
\* get_all_stream_events to the next await.
SyncPull ==
  LET stream == Head(sync.todo)
      loaded == load_from_indexeddb(streams, db, stream, sync.modifier)
  IN /\ sync.pc = "pull"
     /\ streams' = loaded
     /\ sync' = IF Tail(sync.todo) = <<>>
                  THEN begin_save(sync, loaded)
                  ELSE [sync EXCEPT !.todo = Tail(@)]
     /\ window' = IF get_all_stream_events(db, stream) = <<>> THEN window
                  ELSE Touched(window, stream, sync.modifier, TRUE)
     /\ last' = Op("load_from_indexeddb", 0)
     /\ drained' = NoDrain
     /\ invoked' = {}
     /\ UNCHANGED <<listeners, keys_issued, engines, sync_states, now, db, pending,
                    borrow, snap>>

\* save_to_indexeddb: get_clock(Some(stream)) returns, and the events of the
\* first device with something to write are collected.
SyncSaveClock ==
  LET r == get_clock(db, Some(sync.stream))
      device_counts_in_db ==
        IF sync.stream \in DOMAIN r.clock THEN r.clock[sync.stream] ELSE <<>>
  IN /\ sync.pc = "save_clock"
     /\ sync' = IF r.panic THEN Panicked
                ELSE next_device([sync EXCEPT !.counts = device_counts_in_db],
                                 streams)
     /\ UNCHANGED <<streams, listeners, keys_issued, engines, sync_states, now, db,
                    pending, borrow, invoked, last, window, drained, snap>>

\* save_to_indexeddb: one add_event returns. An error ends the sync call
\* with mark_sync_finished(Some(error)).
SyncWrite ==
  LET r == add_event(db, sync.stream, sync.device, Head(sync.queue))
  IN /\ sync.pc = "write"
     /\ db' = r.db
     /\ IF r.ok
          THEN /\ sync' = IF Tail(sync.queue) = <<>>
                            THEN next_device(
                                   [sync EXCEPT
                                      !.queue = <<>>,
                                      !.written = @ + 1,
                                      !.wrote = @ \cup {sync.stream}],
                                   streams)
                            ELSE [sync EXCEPT
                                    !.queue = Tail(@),
                                    !.written = @ + 1,
                                    !.wrote = @ \cup {sync.stream}]
               /\ UNCHANGED <<sync_states, last, snap, drained, invoked>>
          ELSE /\ sync' = resumed(sync)
               /\ sync_states' = mark_sync_finished(sync_states, "Opfs",
                                                    Some("ConstraintError"), now)
               /\ last' = Op("sync_with_indexeddb", "Err")
               /\ snap' = Forgotten(snap)
               /\ drained' = NoDrain
               /\ invoked' = {}
     /\ UNCHANGED <<streams, listeners, keys_issued, engines, now, pending, borrow,
                    window>>

\* The end of a sync that records the engine's own vector clock as the
\* target's clock instead of the clock read from the target.
SyncRefreshBelieving ==
  /\ sync.pc = "refresh"
  /\ sync' = resumed(sync)
  /\ sync_states' =
       mark_sync_finished(
         update_sync_clock(sync_states, "Opfs", vector_clock(streams)),
         "Opfs", None, now)
  /\ last' = Called("sync_with_indexeddb", "Ok",
                ArgsOf([clock |-> vector_clock(streams),
                        filter |-> sync.filter,
                        overlapped |-> sync.overlapped]))
  /\ drained' = NoDrain
  /\ invoked' = {}
  /\ UNCHANGED <<streams, listeners, keys_issued, engines, now, db, pending,
                 borrow, window, snap>>

\* The refreshed clock returns: update_sync_clock, then the call returns Ok
\* and mark_sync_finished(None).
SyncRefresh ==
  LET r == get_clock(db, sync.filter)
  IN /\ sync.pc = "refresh"
     /\ IF r.panic
          THEN /\ sync' = Panicked
               /\ UNCHANGED <<sync_states, last, snap, drained, invoked>>
          ELSE /\ sync' = resumed(sync)
               /\ sync_states' =
                    mark_sync_finished(
                      update_sync_clock(sync_states, "Opfs", r.clock),
                      "Opfs", None, now)
               /\ last' = Called("sync_with_indexeddb", "Ok",
                             ArgsOf([clock |-> r.clock,
                                     filter |-> sync.filter,
                                     overlapped |-> sync.overlapped]))
               /\ snap' = IF snap = SnapOff THEN SnapOff
                          ELSE IF sync.disturbed THEN NoSnap
                          ELSE IF snap.taken THEN [snap EXCEPT !.pre = sync.pre]
                          ELSE [taken |-> TRUE, round |-> 1,
                                filter |-> sync.filter, pre |-> sync.pre,
                                streams |-> StoresOf(streams), db |-> db,
                                after_drop |-> WasDropped(snap),
                                after_failure |-> sync.retry,
                                origin |-> sync.origin]
               /\ drained' = NoDrain
               /\ invoked' = {}
     /\ UNCHANGED <<streams, listeners, keys_issued, engines, now, db, pending,
                    borrow, window>>

\* The backend call the sync is awaiting (get_all_stream_events, get_clock or
\* add_event) returns an error: `?` passes it up, sync_with_indexeddb records
\* it with mark_sync_finished and returns it. The history keeps what the
\* engine and the target held when the call began.
SyncFails ==
  /\ sync.pc \in {"pull_clock", "pull", "save_clock", "write", "refresh"}
  /\ sync' = resumed(sync)
  /\ sync_states' = mark_sync_finished(sync_states, "Opfs",
                                       Some("TransactionError"), now)
  /\ last' = Op("sync_with_indexeddb", "Err")
  /\ snap' = IF snap = SnapOff THEN SnapOff
             ELSE [taken |-> FALSE, pre |-> sync.pre,
                   wrote |-> sync.wrote, signals |-> sync.signals,
                   undisturbed |-> ~sync.disturbed, filter |-> sync.filter,
                   origin |-> sync.origin]
  /\ drained' = NoDrain
  /\ invoked' = {}
  /\ UNCHANGED <<streams, listeners, keys_issued, engines, now, db, pending, borrow,
                 window>>

\* EventDatabase::add_event called by any writer of the database with an
\* event of any index: only an index already stored is refused.
WriterAddsEvent(stream, d, idx) ==
  LET r == add_event(db, stream, d, RemoteEvent(d, idx))
  IN /\ db' = r.db
     /\ last' = Op("add_event", IF r.ok THEN "Ok" ELSE "ConstraintError")
     /\ snap' = Forgotten(snap)
     /\ sync' = Disturbed(sync)
     /\ UNCHANGED <<streams, listeners, keys_issued, engines, sync_states, now,
                    pending, borrow, invoked, window, drained>>

\* EventDatabase::get_clock(only_stream) called on its own: it returns a
\* clock or panics.
GetClock(only_stream) ==
  LET r == get_clock(db, only_stream)
  IN /\ last' = Called("get_clock",
                   IF r.panic THEN [panic |-> TRUE]
                              ELSE [panic |-> FALSE, clock |-> r.clock],
                   [only_stream |-> only_stream])
     /\ UNCHANGED <<streams, listeners, keys_issued, engines, sync_states, now, db, sync,
                    pending, borrow, invoked, window, drained, snap>>

\* EventStore::get_or_insert_default called by the application, which only
\* reads through the handle it gets.
GetOrInsertDefault(stream, modifier) ==
  LET created == stream \notin DOMAIN streams
  IN /\ modifier \in IssuedModifiers
     /\ streams' = get_or_insert_default(streams, stream)
     /\ last' = Called("get_or_insert_default", 0,
                   [stream |-> stream, modifier |-> modifier,
                    created |-> created])
     /\ window' = Touched(window, stream, modifier, FALSE)
     /\ snap' = IF created THEN Forgotten(snap) ELSE snap
     /\ sync' = IF created THEN Disturbed(sync) ELSE sync
     /\ drained' = NoDrain
     /\ invoked' = {}
     /\ UNCHANGED <<listeners, keys_issued, engines, sync_states, now, db, pending,
                    borrow>>

\* EventStore::get_timestamp_of_earliest_unsynced_event.
GetTimestampOfEarliestUnsyncedEvent(target) ==
  /\ last' = Called("get_timestamp_of_earliest_unsynced_event",
                get_timestamp_of_earliest_unsynced_event(streams, sync_states,
                                                         target),
                [target |-> target])
  /\ invoked' = {}
  /\ UNCHANGED <<streams, listeners, keys_issued, engines, sync_states, now, db, sync,
                 pending, borrow, window, drained, snap>>

\* The future of the running sync_with_indexeddb call is dropped at the await
\* it is suspended at; nothing of the call runs any more. An add_event in
\* flight has either landed in the database or not.
SyncDropped(landed) ==
  LET r == add_event(db, sync.stream, sync.device, Head(sync.queue))
  IN /\ sync.pc \in {"pull_clock", "pull", "save_clock", "write", "refresh"}
     /\ landed => sync.pc = "write"
     /\ db' = IF landed THEN r.db ELSE db
     /\ sync' = resumed(sync)
     /\ last' = Op("sync dropped", 0)
     /\ snap' = IF snap = SnapOff THEN SnapOff ELSE DroppedSnap
     /\ drained' = NoDrain
     /\ invoked' = {}
     /\ UNCHANGED <<streams, listeners, keys_issued, engines, sync_states, now, pending,
                    borrow, window>>

\* ------------------------------------------- specification: notifications

\* The batches offered to add_device_events in the notification runs: the
\* empty batch, the next event of the device, and one that skips an index.
NextBatches(stream, device) ==
  LET n == IF stream \in DOMAIN streams
             THEN len_device(streams[stream].store, device) ELSE 0
  IN {<<>>, <<Timestamped(now, n, User(1))>>,
      <<Timestamped(now, n + 1, User(1))>>}

\* Whether the device's log in the stream is shorter than n.
Shorter(stream, device, n) ==
  stream \in DOMAIN streams => len_device(streams[stream].store, device) < n

NextNotify ==
  \/ RegisterListener
  \/ \E k \in Keys : UnregisterListener(k)
  \/ \E s \in Streams, m \in Modifiers :
       \E b \in NextBatches(s, 1) :
         Shorter(s, 1, ShortLen) /\ AddDeviceEvents(s, 1, b, m)
  \/ \E s \in Streams, m \in Modifiers :
       Shorter(s, 1, ShortLen) /\ AddRawEvent(s, 1, 1, m)
  \/ Drain

SpecNotify == Init /\ [][NextNotify]_vars

\* The number of closures addressed to listener k for stream s that the last
\* drain returned.
Closures(k, s) ==
  Cardinality({i \in 1..Len(last.ret) : last.ret[i] = [key |-> k, stream |-> s]})

\* The number of closures addressed to listener k that the last drain returned.
ClosuresFor(k) ==
  Cardinality({i \in 1..Len(last.ret) : last.ret[i].key = k})

\* C1: for a listener L registered at a drain and a stream S that existed
\* before the mutations made since the previous drain: when every one of
\* those mutations was made with modifier Some(L) the drain returns no closure
\* addressed to L for S, and when one of them was made with another modifier
\* (another key or None) it returns a closure addressed to L for S.
C1_EchoSuppressedUnlessOtherModifier ==
  drained.done =>
    \A L \in drained.listeners, S \in DOMAIN drained.dirty :
      (~drained.window[S].created /\ drained.window[S].mods # {}) =>
        IF drained.window[S].mods = {Some(L)}
          THEN Closures(L, S) = 0
          ELSE Closures(L, S) >= 1

\* A drain after which one existing stream was mutated by L alone and another
\* by L and by someone else.
C1_Witness ==
  /\ drained.done
  /\ \E L \in drained.listeners :
       /\ \E S \in DOMAIN drained.dirty :
            /\ ~drained.window[S].created
            /\ drained.window[S].mods = {Some(L)}
            /\ Closures(L, S) = 0
       /\ \E S \in DOMAIN drained.dirty :
            /\ ~drained.window[S].created
            /\ Some(L) \in drained.window[S].mods
            /\ drained.window[S].mods # {Some(L)}
            /\ Closures(L, S) = 1

\* What drain is to return for listener k and stream s, given the dirty
\* states and the listeners it found.
Due(k, s) ==
  /\ s \in DOMAIN drained.dirty
  /\ drained.dirty[s] # Clean
  /\ k \in drained.listeners
  /\ drained.dirty[s] # DirtyExcept(k)

\* C9: a drain returns exactly one closure per pair of a stream that was not
\* Clean and a registered listener other than the stream's DirtyExcept key,
\* and no other closure; it invokes none of them, leaves every stream Clean,
\* and a drain that immediately follows a drain returns the empty list.
C9_DrainOncePerStreamAndListener ==
  drained.done =>
    /\ \A k \in Keys, s \in Streams :
         Closures(k, s) = IF Due(k, s) THEN 1 ELSE 0
    /\ Len(last.ret) =
         Cardinality({ks \in Keys \X Streams : Due(ks[1], ks[2])})
    /\ invoked = {}
    /\ \A s \in DOMAIN streams : streams[s].dirty_state = Clean
    /\ drained.repeated => last.ret = <<>>

\* A drain that found one stream DirtyExcept a registered listener and
\* another DirtyAll, with two listeners registered.
C9_Witness ==
  /\ drained.done
  /\ Cardinality(drained.listeners) = 2
  /\ \E s \in DOMAIN drained.dirty :
       /\ drained.dirty[s].tag = "DirtyExcept"
       /\ drained.dirty[s].key \in drained.listeners
  /\ \E s \in DOMAIN drained.dirty : drained.dirty[s] = DirtyAll
  /\ Len(last.ret) = 3

\* A drain that immediately follows a drain that returned closures.
C9_WitnessRepeated ==
  /\ drained.done
  /\ drained.repeated
  /\ \E s \in DOMAIN streams : len_device(streams[s].store, 1) > 0

\* ------------------------------------ specification: raw events and drains

NextEcho ==
  \/ RegisterListener
  \/ \E s \in Streams, p \in Payloads, m \in Modifiers : AddRawEvent(s, 1, p, m)
  \/ Drain

SpecEcho == Init /\ [][NextEcho]_vars

\* Since the previous drain (or since the engine was made) only stream S was
\* touched, and every write to it was made with modifier m.
OnlyWritten(S, m) ==
  /\ drained.window[S].mods = {m}
  /\ \A T \in Streams \ {S} : drained.window[T] = EmptyWindow

\* C8 as stated: with K registered, add_raw_event calls made with Some(K) on
\* one stream and then a drain yield no closure for K, also when the engine
\* was fresh and the first call created the stream; add_raw_event calls made
\* with None and then a drain yield exactly one closure for K.
C8_EchoSuppressedFromFresh ==
  drained.done =>
    \A K \in drained.listeners, S \in Streams :
      /\ OnlyWritten(S, Some(K)) => ClosuresFor(K) = 0
      /\ OnlyWritten(S, None) => ClosuresFor(K) = 1

\* C8, amended: with K registered and every stream Clean, add_raw_event calls
\* made with Some(K) on a stream that already exists and then a drain yield no
\* closure for K; add_raw_event calls made with None and then a drain yield
\* exactly one closure for K; and when the first add_raw_event with Some(K)
\* creates the stream, the drain yields exactly one closure for K.
C8_EchoSuppressedOnExistingStream ==
  drained.done =>
    \A K \in drained.listeners, S \in Streams :
      /\ OnlyWritten(S, Some(K)) =>
           ClosuresFor(K) = IF drained.window[S].created THEN 1 ELSE 0
      /\ OnlyWritten(S, None) => ClosuresFor(K) = 1

\* A drain after add_raw_event with Some(K) on an existing Clean stream, which
\* returned no closure for K.
C8_Witness ==
  /\ drained.done
  /\ \E K \in drained.listeners, S \in Streams :
       /\ OnlyWritten(S, Some(K))
       /\ ~drained.window[S].created
       /\ ClosuresFor(K) = 0

\* ----------------------------------------- specification: engine and target

\* The lists of indices offered to a device that holds n events: every list
\* of at most longest indices between n - 1 and n + 2.
IndexLists(n, longest) ==
  UNION {[1..k -> {i \in (n - 1)..(n + 2) : i >= 0 /\ i <= MaxIdx}] :
           k \in 0..longest}

\* The batches of at most longest events offered for a device of a stream.
Batches(stream, d, longest) ==
  LET n == IF stream \in DOMAIN streams
             THEN len_device(streams[stream].store, d) ELSE 0
  IN {[i \in 1..Len(ix) |-> RemoteEvent(d, ix[i])] :
        ix \in IndexLists(n, longest)}

\* An event with its payload replaced by JSON.
JsonOf(ev, json) ==
  [timestamp |-> ev.timestamp,
   within_device_events_index |-> ev.within_device_events_index,
   event |-> json]

\* The batches offered to add_device_events_jsons: those of Batches with the
\* payloads serialised, and the same with the last payload no event.
JsonBatches(stream, d, longest) ==
  {[i \in 1..Len(b) |-> JsonOf(b[i], event_type_to_json(b[i].event))] :
     b \in Batches(stream, d, longest)}
  \cup {[i \in 1..Len(b) |->
           JsonOf(b[i], IF i = Len(b) THEN BadJson
                                      ELSE event_type_to_json(b[i].event))] :
          b \in Batches(stream, d, longest) \ {<<>>}}

NextStore ==
  \/ \E d \in Devices : \E b \in Batches(1, d, MaxBatch) :
       Shorter(1, d, ShortLen) /\ AddDeviceEvents(1, d, b, None)
  \/ \E d \in Devices : \E b \in JsonBatches(1, d, 1) :
       Shorter(1, d, ShortLen) /\ AddDeviceEventsJsons(1, d, b, None)
  \/ Shorter(1, 1, ShortLen) /\ AddRawEvent(1, 1, 1, None)
  \/ Len(db[1][2]) < ShortLen /\ OtherTabWrites(1, 2)
  \/ SyncStart(Some(1), None)
  \/ SyncPull
  \/ SyncSaveClock
  \/ SyncWrite
  \/ SyncRefresh

SpecStore == InitUnrecorded /\ [][NextStore]_vars

\* C2: whatever add_device_events, add_device_events_jsons, add_raw_event
\* calls and sync pulls were made, accepted or rejected, the events stored for
\* a device of a stream carry the indices 0, 1, ..., len_device - 1, in that
\* order.
C2_StoredIndicesContiguous ==
  \A s \in DOMAIN streams, d \in Devices :
    \A i \in 1..len_device(streams[s].store, d) :
      LogOf(streams[s].store, d)[i].within_device_events_index = i - 1

\* A sync pull has just appended device 2's events to an engine that holds
\* two events of each device.
C2_Witness ==
  /\ last.op = "load_from_indexeddb"
  /\ 1 \in DOMAIN streams
  /\ len_device(streams[1].store, 1) = 2
  /\ len_device(streams[1].store, 2) = 2
  /\ Len(db[1][2]) = 2
  /\ Len(db[1][1]) < 2

\* ------------------------------------------------- specification: syncing

\* The engine appends its own events (device 1) and receives those of
\* device 2 from their origin; another tab saves device 2's events to the
\* database; the engine syncs with the database.
NextSync ==
  \/ AddRawEvent(1, 1, 1, None)
  \/ /\ 1 \in DOMAIN streams => len_device(streams[1].store, 2) < RemoteLen
     /\ AddDeviceEvents(1, 2,
          <<RemoteEvent(2, IF 1 \in DOMAIN streams
                             THEN len_device(streams[1].store, 2) ELSE 0)>>, None)
  \/ Len(db[1][2]) < RemoteLen /\ OtherTabWrites(1, 2)
  \/ \E f \in {None, Some(1)} : SyncStart(f, None)
  \/ SyncPullClock
  \/ SyncPull
  \/ SyncSaveClock
  \/ SyncWrite
  \/ SyncRefresh

SpecSync == InitUnwatched /\ [][NextSync]_vars

\* C6: when a sync call that succeeded is followed by a sync call of the
\* same target and streams, and neither the application nor another writer
\* acted from the start of the first to the end of the second, then during
\* and after the second call the engine's stored events, its vector clock and
\* the target's stored events are those the first call left: the second call
\* pulls nothing and writes nothing.
C6_SecondSyncChangesNothing ==
  (snap.taken /\ snap.round = 2) =>
    /\ StoresOf(streams) = snap.streams
    /\ vector_clock(streams) = vector_clock(snap.streams)
    /\ db = snap.db
    /\ sync.pc # "write"
    /\ sync.written = 0

\* A second sync call has returned, the first having left events of both
\* devices in the engine and in the target.
C6_Witness ==
  /\ snap.taken
  /\ snap.round = 2
  /\ sync.pc = "idle"
  /\ last.op = "sync_with_indexeddb"
  /\ last.ret = "Ok"
  /\ 1 \in DOMAIN streams
  /\ len_device(streams[1].store, 1) >= 2
  /\ len_device(streams[1].store, 2) >= 1
  /\ Len(db[1][1]) >= 2
  /\ Len(db[1][2]) >= 1

\* The events a device's records in the target hold, in stored order.
TargetLog(dbs, s, d) ==
  [i \in 1..Len(dbs[s][d]) |-> record_event(dbs[s][d][i])]

\* The events a device has in the stores of some streams.
EngineLog(stores, s, d) ==
  IF s \in DOMAIN stores THEN LogOf(stores[s].store, d) ELSE <<>>

\* The longer of two logs.
Longer(a, b) == IF Len(a) >= Len(b) THEN a ELSE b

\* The count a clock holds for a device of a stream, 0 when it has no entry.
ClockCount(clock, s, d) ==
  IF s \in DOMAIN clock /\ d \in DOMAIN clock[s] THEN clock[s][d] ELSE 0

\* The streams a sync call with the filter covers.
Covered(filter) == IF filter = None THEN Streams ELSE {filter[1]}

\* C7: after a sync call that returned success, with no mutation by the
\* application or another writer during it, for every stream s it covered
\* and every device both the engine and the target hold the longer of the
\* two logs they held when the call began, last_sync_error is None, and the
\* remote clock recorded for s equals the engine's vector clock for s.
C7_SyncLeavesBothWithLongerLog ==
  (snap.taken /\ sync.pc = "idle") =>
    /\ \A s \in Covered(snap.filter), d \in Devices :
         LET longer == Longer(EngineLog(snap.pre.streams, s, d),
                              TargetLog(snap.pre.db, s, d))
         IN /\ EngineLog(streams, s, d) = longer
            /\ TargetLog(db, s, d) = longer
            /\ ClockCount(sync_states["Opfs"].remote_clock, s, d)
                 = ClockCount(vector_clock(streams), s, d)
    /\ sync_states["Opfs"].last_sync_error = None

\* The sync of the example has returned: the engine held A#0..2, the target
\* A#0..1 and B#0, and the recorded remote clock is {s: {A: 3, B: 1}}.
C7_Witness ==
  /\ snap.taken
  /\ sync.pc = "idle"
  /\ last.op = "sync_with_indexeddb"
  /\ last.ret = "Ok"
  /\ Len(EngineLog(snap.pre.streams, 1, 1)) = 3
  /\ Len(EngineLog(snap.pre.streams, 1, 2)) = 0
  /\ Len(snap.pre.db[1][1]) = 2
  /\ Len(snap.pre.db[1][2]) = 1
  /\ len_device(streams[1].store, 2) = 1
  /\ Len(db[1][1]) = 3
  /\ sync_states["Opfs"].remote_clock = (1 :> (1 :> 3 @@ 2 :> 1))

\* ------------------------------------------- specification: rejected batches

\* Batches with any indices are offered to one device of each stream, by any
\* caller; listeners register and drains happen.
NextReject ==
  \/ RegisterListener
  \/ \E s \in Streams, m \in Modifiers :
       \E b \in Batches(s, 1, MaxBatch) :
         /\ len_device(add_device_events(streams, s, 1, b, m).streams[s].store, 1)
              <= ShortLen
         /\ AddDeviceEvents(s, 1, b, m)
  \/ Drain

SpecReject == InitUnrecorded /\ [][NextReject]_vars

\* C10 as stated: a step in which add_device_events drops its batch as
\* invalid returns 0 and leaves the streams as they were: the same set of
\* streams, the same events, the same dirty states.
C10_RejectedBatchChangesNothing ==
  [][last'.rejected => (last'.ret = 0 /\ streams' = streams)]_vars

\* C10, amended: a step in which add_device_events drops its batch as invalid
\* returns 0, stores no event and leaves every stream that existed as it was,
\* its dirty state included; when the stream named in the call did not exist
\* it is created, empty and DirtyAll.
C10_RejectedBatchStoresNothing ==
  [][last'.rejected =>
       /\ last'.ret = 0
       /\ DOMAIN streams \subseteq DOMAIN streams'
       /\ \A s \in DOMAIN streams : streams'[s] = streams[s]
       /\ \A s \in DOMAIN streams' \ DOMAIN streams :
            streams'[s] = DefaultTracker
       /\ Cardinality(DOMAIN streams' \ DOMAIN streams) <= 1]_vars

\* add_device_events has just dropped a batch offered to a device that holds
\* two events, in a stream that is Clean.
C10_Witness ==
  /\ last.op = "add_device_events"
  /\ last.rejected
  /\ \E s \in DOMAIN streams :
       /\ len_device(streams[s].store, 1) = 2
       /\ streams[s].dirty_state = Clean

\* ----------------------------------------------- specification: merge order

\* Events with any timestamps and payloads are appended, one at a time, to the
\* two devices of one stream.
NextOrder ==
  \E d \in Devices, t \in Times, p \in Payloads :
    /\ Shorter(1, d, ShortLen)
    /\ AddDeviceEvents(1, d,
         <<Timestamped(t, IF 1 \in DOMAIN streams
                            THEN len_device(streams[1].store, d) ELSE 0,
                       User(p))>>, None)

SpecOrder == InitUnrecorded /\ [][NextOrder]_vars

\* The stores that hold the same per-device logs as the store, with the
\* devices first inserted in any order.
Arrivals(store) ==
  {[i \in 1..Len(store) |-> store[pi[i]]] : pi \in Permutations(1..Len(store))}

\* C3: iter() and state(initial) of a stream are the same for every order of
\* add_device_events calls that ends in the same per-device logs.
C3_MergeIgnoresInsertionOrder ==
  \A s \in DOMAIN streams :
    \A other \in Arrivals(streams[s].store) :
      /\ iter(other) = iter(streams[s].store)
      /\ \A initial \in 0..1 :
           state(other, initial) = state(streams[s].store, initial)

\* Two devices hold events with the same timestamp; the device that was
\* inserted later is the smaller one.
C3_Witness ==
  /\ 1 \in DOMAIN streams
  /\ Len(streams[1].store) = 2
  /\ streams[1].store[1].device > streams[1].store[2].device
  /\ Head(streams[1].store[1].log).timestamp
       = Head(streams[1].store[2].log).timestamp
  /\ Len(iter(streams[1].store)) = 4

\* How often a value occurs in a sequence.
Occurrences(seq, x) == Cardinality({i \in 1..Len(seq) : seq[i] = x})

\* Whether the timestamps of a log never decrease.
NonDecreasing(log) ==
  \A i \in 1..Len(log), j \in 1..Len(log) :
    i < j => log[i].timestamp <= log[j].timestamp

AllNonDecreasing(store) ==
  \A i \in 1..Len(store) : NonDecreasing(store[i].log)

\* How many events a store holds.
RECURSIVE TotalLen(_)
TotalLen(store) ==
  IF store = <<>> THEN 0 ELSE Len(Head(store).log) + TotalLen(Tail(store))

\* C4: iter() yields every stored event exactly once, equal events of two
\* devices once each, and when the timestamps of every device never decrease
\* it yields them in order of timestamp.
C4_MergeYieldsAllInTimestampOrder ==
  \A s \in DOMAIN streams :
    LET store == streams[s].store
        it == iter(store)
    IN /\ Len(it) = TotalLen(store)
       /\ \A k \in 1..Len(it) :
            Occurrences(it, it[k])
              = Occurrences(LogOf(store, 1), it[k])
                + Occurrences(LogOf(store, 2), it[k])
       /\ AllNonDecreasing(store) => NonDecreasing(it)

\* The example: A#0 at 0, A#1 at 2 and B#0 at 1 are yielded as A#0, B#0, A#1,
\* B#0 being equal to A#0 but for its timestamp.
C4_Witness ==
  /\ 1 \in DOMAIN streams
  /\ LogOf(streams[1].store, 1)
       = <<Timestamped(0, 0, User(1)), Timestamped(2, 1, User(1))>>
  /\ LogOf(streams[1].store, 2) = <<Timestamped(1, 0, User(1))>>
  /\ iter(streams[1].store)
       = <<Timestamped(0, 0, User(1)), Timestamped(1, 0, User(1)),
           Timestamped(2, 1, User(1))>>

\* In the merged order, of two events with the same timestamp the one of the
\* smaller device comes first.
DeviceFirst(store) ==
  LET m == merged(store)
  IN \A i \in 1..Len(m), j \in 1..Len(m) :
       (/\ m[i].event.timestamp = m[j].event.timestamp
        /\ m[i].device < m[j].device) => i < j

MixedJsonBatches(stream, d, longest) ==
  {[i \in 1..Len(b) |->
      JsonOf(b[i], IF i \in bad THEN BadJson
                                ELSE event_type_to_json(b[i].event))] :
     b \in Batches(stream, d, longest), bad \in SUBSET (1..longest)}

\* Streams are created by add_raw_event and filled by add_device_events_jsons
\* with batches whose indices and whose JSON are right or wrong.
NextJson ==
  \/ \E s \in Streams : Shorter(s, 1, ShortLen) /\ AddRawEvent(s, 1, 1, None)
  \/ \E s \in Streams, d \in Devices :
       \E b \in MixedJsonBatches(s, d, MaxBatch) :
         Shorter(s, d, ShortLen) /\ AddDeviceEventsJsons(s, d, b, None)

SpecJson == InitUnrecorded /\ [][NextJson]_vars

\* C11: a step in which add_device_events_jsons is given a batch one of whose
\* events has JSON that does not deserialise returns 0 and stores no event of
\* the batch, those before the failing one included.
C11_FailedJsonBatchStoresNothing ==
  [][last'.failed > 0 =>
       (last'.ret = 0 /\ StoresOf(streams') = StoresOf(streams))]_vars

\* add_device_events_jsons has just been given a batch with valid indices
\* whose first event deserialises and whose second does not, for a device
\* that held one event.
C11_Witness ==
  /\ last.op = "add_device_events_jsons"
  /\ last.failed = 2
  /\ \E s \in DOMAIN streams, d \in Devices :
       len_device(streams[s].store, d) = 1

\* ------------------------------------------ specification: recorded clocks

\* The maps from some of the devices ds to a count.
DeviceCounts(ds) == UNION {[D -> 0..MaxCount] : D \in SUBSET ds}

\* The clocks passed to update_sync_clock: any counts for the devices of
\* stream 1 and for device 1 of stream 2, either stream present or not.
Clocks ==
  {c \in UNION {[S -> DeviceCounts(Devices)] : S \in SUBSET Streams} :
     2 \in DOMAIN c => DOMAIN c[2] \subseteq {1}}

\* update_sync_clock is called for one target, up to MaxUpdates times.
NextClock ==
  \E target \in SyncTargets, c \in Clocks :
    /\ DOMAIN sync_states \subseteq {target}
    /\ last.op = "update_sync_clock" => last.args.calls < MaxUpdates
    /\ UpdateSyncClock(target, c)

SpecClock == InitUnrecorded /\ [][NextClock]_vars

\* The (stream, device) keys of a clock.
ClockKeys(clock) ==
  {k \in Streams \X Devices :
     k[1] \in DOMAIN clock /\ k[2] \in DOMAIN clock[k[1]]}

Max(a, b) == IF a < b THEN b ELSE a

\* Clock c is the element-wise maximum of a and b over the union of their
\* keys.
ElementwiseMax(c, a, b) ==
  /\ ClockKeys(c) = ClockKeys(a) \cup ClockKeys(b)
  /\ \A k \in ClockKeys(c) :
       c[k[1]][k[2]] =
         IF k \notin ClockKeys(a) THEN b[k[1]][k[2]]
         ELSE IF k \notin ClockKeys(b) THEN a[k[1]][k[2]]
         ELSE Max(a[k[1]][k[2]], b[k[1]][k[2]])

\* C12: after update_sync_clock(target, c) the clock recorded for the target
\* is the element-wise maximum of the clock recorded before and c; so the
\* first update from no recorded clock records c1 and the second the
\* element-wise maximum of c1 and c2.
C12_UpdateJoinsClocks ==
  last.op = "update_sync_clock" =>
    LET recorded == sync_states[last.args.target].remote_clock
    IN /\ ElementwiseMax(recorded, last.args.old, last.args.new)
       /\ last.args.calls = 1 =>
            /\ last.args.old = <<>>
            /\ ElementwiseMax(recorded, last.args.new, last.args.new)

\* The second update in a row, where the first recorded a larger count for
\* one device and the second brings a larger count for another and a device
\* the first did not have.
C12_Witness ==
  /\ last.op = "update_sync_clock"
  /\ last.args.calls = 2
  /\ \E k1, k2, k3 \in Streams \X Devices :
       /\ k1 \in ClockKeys(last.args.old) /\ k1 \in ClockKeys(last.args.new)
       /\ last.args.old[k1[1]][k1[2]] > last.args.new[k1[1]][k1[2]]
       /\ k2 \in ClockKeys(last.args.old) /\ k2 \in ClockKeys(last.args.new)
       /\ last.args.old[k2[1]][k2[2]] < last.args.new[k2[1]][k2[2]]
       /\ k3 \notin ClockKeys(last.args.old) /\ k3 \in ClockKeys(last.args.new)

\* ---------------------------------------- specification: local appends

\* A listener is registered and the application appends to the devices of
\* stream 1 and to device 1 of stream 2 with any payload and any modifier.
NextRaw ==
  \/ listeners = {} /\ RegisterListener
  \/ \E s \in Streams, d \in Devices, p \in Payloads, m \in Modifiers :
       /\ s = 2 => d = 1
       /\ Shorter(s, d, ShortLen)
       /\ AddRawEvent(s, d, p, m)

SpecRaw == InitUnrecorded /\ [][NextRaw]_vars

\* C13: every add_raw_event(stream, device, payload, m) step appends exactly
\* one event to (stream, device), namely User(payload) with the index the
\* device's length had, creates the stream when it did not exist and leaves
\* every other log as it was.
C13_RawEventAppendsOne ==
  [][last'.op = "add_raw_event" =>
       LET a == last'.args
           old == EngineLog(streams, a.stream, a.device)
       IN /\ DOMAIN streams' = DOMAIN streams \cup {a.stream}
          /\ EngineLog(streams', a.stream, a.device) =
               Append(old, Timestamped(now, Len(old), User(a.payload)))
          /\ len_device(streams'[a.stream].store, a.device) = Len(old) + 1
          /\ \A s \in Streams, d \in Devices :
               <<s, d>> # <<a.stream, a.device>> =>
                 EngineLog(streams', s, d) = EngineLog(streams, s, d)]_vars

\* add_raw_event has just appended the second event of device 2 to a stream
\* in which device 1 holds events too, and has created another stream since.
C13_Witness ==
  /\ last.op = "add_raw_event"
  /\ last.args.device = 2
  /\ last.args.modifier # None
  /\ len_device(streams[last.args.stream].store, 2) = 2
  /\ len_device(streams[last.args.stream].store, 1) >= 1
  /\ DOMAIN streams = Streams

\* ------------------------------------------- specification: the dispatcher

\* Deepest nesting of flush_notifications calls
MaxDepth == 2

\* The application registers listeners, appends and flushes as the front end
\* does; a running callback reads the store, appends to it, flushes again or
\* returns. Every call into the engine borrows the store first, which it can
\* only while no other borrow is alive.
NextDispatch ==
  \/ pending = <<>> /\ borrow = Free /\ RegisterListener
  \/ \E s \in Streams, m \in Modifiers :
       /\ pending = <<>> \/ Running
       /\ borrow = Free
       /\ Shorter(s, 1, ShortLen)
       /\ AddRawEvent(s, 1, 1, m)
  \/ \E s \in Streams : Running /\ borrow = Free /\ GetRaw(s)
  \/ Len(pending) < MaxDepth /\ Flush
  \/ CallbackStart
  \/ CallbackReturn
  \/ FlushEnd

SpecDispatch == InitUnwatched /\ [][NextDispatch]_vars

\* C14: while a listener callback is running no borrow of the store is
\* alive: flush_notifications has released the store before it calls the
\* first closure, so a call the callback makes into the engine can borrow it.
C14_NoBorrowWhileCallbackRuns ==
  /\ Running => borrow = Free
  /\ (pending # <<>> /\ last.op = "flush_notifications") => borrow = Free

\* A callback run by a flush that another callback started has just appended
\* an event to the store.
C14_Witness ==
  /\ Len(pending) = 2
  /\ Running
  /\ last.op = "add_raw_event"

\* ------------------------------------------ specification: failing syncs

\* The application appends to stream 1, another writer fills the target, and
\* syncs of stream 1 run; any backend call a sync awaits may fail.
NextFail ==
  \/ Shorter(1, 1, ShortLen) /\ AddRawEvent(1, 1, 1, None)
  \/ Len(db[1][2]) < RemoteLen /\ OtherTabWrites(1, 2)
  \/ SyncStart(Some(1), None)
  \/ SyncPull
  \/ SyncSaveClock
  \/ SyncWrite
  \/ SyncRefresh
  \/ SyncFails

SpecFail == InitUnwatched /\ [][NextFail]_vars

\* Sequence a is a prefix of sequence b.
Prefix(a, b) == Len(a) <= Len(b) /\ SubSeq(b, 1, Len(a)) = a

\* C15: a step in which sync_with_indexeddb returns leaves the engine's and
\* the target's events as they were just before, so what was pulled or pushed
\* stays stored (each log still extends the log held when the call began);
\* when it returns an error, last_sync_error is Some(message), and when it
\* returns Ok, last_sync_error is None.
C15_FailedSyncKeepsProgress ==
  [][(sync.pc # "idle" /\ sync'.pc = "idle") =>
       /\ last'.op = "sync_with_indexeddb"
       /\ StoresOf(streams') = StoresOf(streams)
       /\ db' = db
       /\ \A d \in Devices :
            /\ Prefix(EngineLog(sync.pre.streams, 1, d), EngineLog(streams', 1, d))
            /\ Prefix(sync.pre.db[1][d], db'[1][d])
       /\ IF last'.ret = "Err"
            THEN sync_states'["Opfs"].last_sync_error # None
            ELSE sync_states'["Opfs"].last_sync_error = None]_vars

\* A sync has just returned an error after it had pulled an event of device 2
\* into the engine and pushed one of the engine's two events to the target.
C15_Witness ==
  /\ last.op = "sync_with_indexeddb"
  /\ last.ret = "Err"
  /\ snap # SnapOff
  /\ ~snap.taken
  /\ "pre" \in DOMAIN snap
  /\ sync_states["Opfs"].last_sync_error # None
  /\ Len(EngineLog(snap.pre.streams, 1, 2)) < Len(EngineLog(streams, 1, 2))
  /\ Len(snap.pre.db[1][1]) < Len(db[1][1])
  /\ Len(db[1][1]) < Len(EngineLog(streams, 1, 1))

\* ---------------------------------------- specification: abandoned syncs

\* The application appends to stream 1, another writer fills the target, and
\* syncs of stream 1 run; a sync may be abandoned at any await.
NextDrop ==
  \/ Shorter(1, 1, ShortLen) /\ AddRawEvent(1, 1, 1, None)
  \/ Len(db[1][2]) < RemoteLen /\ OtherTabWrites(1, 2)
  \/ SyncStart(Some(1), None)
  \/ SyncPull
  \/ SyncSaveClock
  \/ SyncWrite
  \/ SyncRefresh
  \/ \E landed \in BOOLEAN : SyncDropped(landed)

SpecDrop == InitUnwatched /\ [][NextDrop]_vars

\* The indices of the log are 0, 1, ..., Len(log) - 1, in that order.
Contiguous(log) ==
  \A i \in 1..Len(log) : log[i].within_device_events_index = i - 1

\* The logs of the engine and of the target have contiguous indices, no sync
\* call has panicked and none has returned an error.
LogsWhole ==
  /\ \A s \in Streams, d \in Devices :
       /\ Contiguous(EngineLog(streams, s, d))
       /\ Contiguous(TargetLog(db, s, d))
  /\ sync.pc # "panicked"
  /\ last.op = "sync_with_indexeddb" => last.ret = "Ok"

\* C16: with syncs abandoned at any await, the engine's and the target's
\* logs keep contiguous indices; the step that abandons a sync alters no
\* stored event and adds at most the one event whose add was in flight,
\* whole; and a sync after it never panics nor fails, and when it has
\* returned the engine and the target hold the same logs.
C16_DroppedSyncLeavesLogsWhole ==
  /\ [](LogsWhole /\
          ((snap.taken /\ snap.after_drop) =>
             \A d \in Devices : EngineLog(streams, 1, d) = TargetLog(db, 1, d)))
  /\ [][(sync.pc # "idle" /\ last'.op = "sync dropped") =>
          /\ StoresOf(streams') = StoresOf(streams)
          /\ \A s \in Streams, d \in Devices :
               \/ db'[s][d] = db[s][d]
               \/ /\ sync.pc = "write"
                  /\ <<s, d>> = <<sync.stream, sync.device>>
                  /\ db'[s][d] =
                       Append(db[s][d], event_record(Head(sync.queue)))]_vars

\* A sync that began after another was abandoned in the middle of its push
\* (one of the engine's two events written) has returned Ok, and the target
\* holds both events.
C16_Witness ==
  /\ snap.taken
  /\ snap.after_drop
  /\ last.op = "sync_with_indexeddb"
  /\ Len(snap.pre.db[1][1]) = 1
  /\ Len(EngineLog(snap.pre.streams, 1, 1)) = 2
  /\ Len(db[1][1]) = 2

\* ------------------------------------------- claims on skewed timestamps

\* The events iter() yields that belong to one device, in the order yielded.
YieldedOf(store, d) ==
  LET own == SelectSeq(merged(store), LAMBDA entry : entry.device = d)
  IN [k \in 1..Len(own) |-> own[k].event]

\* Whether some stored event of the log has a smaller timestamp than a stored
\* event of a smaller index.
Skewed(log) ==
  \E i, j \in 1..Len(log) :
    /\ log[i].within_device_events_index < log[j].within_device_events_index
    /\ log[i].timestamp > log[j].timestamp

NextUnsynced ==
  \/ \E s \in Streams, d \in Devices, t \in Times :
       /\ s = 2 => (d = 1 /\ 2 \notin DOMAIN streams)
       /\ Shorter(s, d, ShortLen)
       /\ AddDeviceEvents(s, d,
            <<Timestamped(t, IF s \in DOMAIN streams
                               THEN len_device(streams[s].store, d) ELSE 0,
                          User(1))>>, None)
  \/ \E c \in Clocks :
       /\ sync_states = <<>>
       /\ UpdateSyncClock("Opfs", c)
  \/ \E target \in SyncTargets : GetTimestampOfEarliestUnsyncedEvent(target)

SpecUnsynced == InitUnrecorded /\ [][NextUnsynced]_vars

\* The remote clock recorded for a target, empty when it has no sync state.
RecordedClock(target) ==
  IF target \in DOMAIN sync_states
    THEN sync_states[target].remote_clock ELSE <<>>

\* The (stream, device) pairs with more local events than the recorded count.
Unsynced(target) ==
  {sd \in (DOMAIN streams) \X Devices :
     len_device(streams[sd[1]].store, sd[2])
       > ClockCount(RecordedClock(target), sd[1], sd[2])}

\* Clock a dominates clock b.
Dominates(a, b) ==
  \A s \in DOMAIN b : \A d \in DOMAIN b[s] : ClockCount(a, s, d) >= b[s][d]

\* C18: get_timestamp_of_earliest_unsynced_event(target) returns the smallest
\* timestamp among the local events at index = recorded count of the streams
\* and devices whose local count exceeds the count of the target's recorded
\* remote clock, and None exactly when that clock dominates vector_clock().
C18_EarliestUnsyncedIsMinimum ==
  last.op = "get_timestamp_of_earliest_unsynced_event" =>
    LET target == last.args.target
        stamps == {LogOf(streams[sd[1]].store, sd[2])
                     [ClockCount(RecordedClock(target), sd[1], sd[2]) + 1]
                       .timestamp : sd \in Unsynced(target)}
    IN /\ last.ret = IF stamps = {} THEN None ELSE Some(MinOf(stamps))
       /\ last.ret = None <=>
            Dominates(RecordedClock(target), vector_clock(streams))

\* The call for Opfs returned the timestamp of an event of stream 1 that is
\* neither the first of its device nor the earliest local event, while
\* stream 2 holds a later unsynced event.
C18_Witness ==
  /\ last.op = "get_timestamp_of_earliest_unsynced_event"
  /\ last.args.target = "Opfs"
  /\ DOMAIN streams = {1, 2}
  /\ ClockCount(RecordedClock("Opfs"), 1, 1) = 1
  /\ <<1, 1>> \in Unsynced("Opfs")
  /\ <<2, 1>> \in Unsynced("Opfs")
  /\ LogOf(streams[1].store, 1)[1].timestamp = 0
  /\ LogOf(streams[1].store, 1)[2].timestamp = 1
  /\ LogOf(streams[2].store, 1)[1].timestamp = 2
  /\ last.ret = Some(1)

\* ------------------------------------------- specification: stored data

\* Every operation of the engine that touches the streams: batches (valid
\* or not) for device 2 of stream 1, JSON batches and raw events for
\* device 1, bare creation of stream 2, mark_loaded, drain of a dirty store,
\* and syncs of stream 1 against a target that another writer fills. Raw
\* events and the other writer act during a sync as well, the rest between
\* syncs.
NextGrow ==
  \/ \E b \in Batches(1, 2, 1) :
       /\ sync.pc = "idle"
       /\ Shorter(1, 2, ShortLen)
       /\ AddDeviceEvents(1, 2, b, None)
  \/ \E b \in JsonBatches(1, 1, 1) :
       /\ sync.pc = "idle"
       /\ Shorter(1, 1, ShortLen)
       /\ AddDeviceEventsJsons(1, 1, b, None)
  \/ Shorter(1, 1, ShortLen) /\ AddRawEvent(1, 1, 1, None)
  \/ sync.pc = "idle" /\ GetOrInsertDefault(2, None)
  \/ sync.pc = "idle" /\ MarkLoaded(1, None)
  \/ /\ sync.pc = "idle"
     /\ \E s \in DOMAIN streams : streams[s].dirty_state # Clean
     /\ Drain
  \/ Len(db[1][2]) < RemoteLen /\ OtherTabWrites(1, 2)
  \/ SyncStart(Some(1), None)
  \/ SyncPull
  \/ SyncSaveClock
  \/ SyncWrite
  \/ SyncRefresh

SpecGrow == InitUnrecorded /\ [][NextGrow]_vars

\* C19: no step removes a stream, every log of a stream and device is a
\* prefix of the log after the step, and no entry of vector_clock()
\* disappears or decreases.
C19_StoredDataOnlyGrows ==
  [][/\ DOMAIN streams \subseteq DOMAIN streams'
     /\ \A s \in DOMAIN streams : \A d \in Devices :
          Prefix(EngineLog(streams, s, d), EngineLog(streams', s, d))
     /\ \A s \in DOMAIN vector_clock(streams) :
          \A d \in DOMAIN vector_clock(streams)[s] :
            /\ s \in DOMAIN vector_clock(streams')
            /\ d \in DOMAIN vector_clock(streams')[s]
            /\ vector_clock(streams')[s][d] >= vector_clock(streams)[s][d]]_vars

\* Both streams exist, stream 1 holds two events of the application and one
\* pulled from the target, a batch has just been rejected and stream 1 has
\* been drained.
C19_Witness ==
  /\ DOMAIN streams = {1, 2}
  /\ len_device(streams[1].store, 1) = 2
  /\ len_device(streams[1].store, 2) = 1
  /\ streams[1].dirty_state = Clean
  /\ last.rejected

\* --------------------------------------- specification: created streams

\* Listeners come and go; streams are created bare, by batches (empty, valid
\* or not) and by raw events, with every modifier; the store is drained.
NextCreate ==
  \/ RegisterListener
  \/ \E k \in Keys : UnregisterListener(k)
  \/ \E s \in Streams, m \in Modifiers : GetOrInsertDefault(s, m)
  \/ \E s \in Streams, m \in Modifiers :
       \E b \in NextBatches(s, 1) :
         Shorter(s, 1, ShortLen) /\ AddDeviceEvents(s, 1, b, m)
  \/ \E s \in Streams, m \in Modifiers :
       Shorter(s, 1, ShortLen) /\ AddRawEvent(s, 1, 1, m)
  \/ Drain

SpecCreate == Init /\ [][NextCreate]_vars

\* C20: a stream created since the previous drain is DirtyAll until the
\* drain, whatever modifiers created it and wrote to it, and the drain
\* returns for it one closure for every registered listener.
C20_CreatedStreamNotifiesEveryone ==
  /\ \A S \in DOMAIN streams :
       window[S].created => streams[S].dirty_state = DirtyAll
  /\ drained.done =>
       \A S \in DOMAIN drained.dirty :
         drained.window[S].created =>
           \A L \in drained.listeners : Closures(L, S) = 1

\* A drain with two listeners registered after a stream was created and
\* written to with the key of one of them only: both got a closure for it.
C20_Witness ==
  /\ drained.done
  /\ Cardinality(drained.listeners) = 2
  /\ \E S \in DOMAIN drained.dirty, L \in drained.listeners :
       /\ drained.window[S].created
       /\ drained.window[S].mods = {Some(L)}
       /\ Closures(L, S) = 1
       /\ \A K \in drained.listeners : Closures(K, S) = 1

\* ------------------------------------------- specification: listener keys

\* Listeners register and unregister, stream 1 is written with every
\* modifier, and the store is drained.
NextKeys ==
  \/ RegisterListener
  \/ \E k \in Keys : UnregisterListener(k)
  \/ \E m \in Modifiers : Shorter(1, 1, MaxLen) /\ AddRawEvent(1, 1, 1, m)
  \/ Drain

SpecKeys == Init /\ [][NextKeys]_vars

NextPanic ==
  \/ pending = <<>> /\ RegisterListener
  \/ \E s \in Streams :
       /\ pending = <<>> \/ Running
       /\ Shorter(s, 1, ShortLen)
       /\ AddRawEvent(s, 1, 1, None)
  \/ Len(pending) < MaxDepth /\ Flush
  \/ CallbackStart
  \/ CallbackReturn
  \/ CallbackThrows
  \/ CallbackPanics
  \/ FlushEnd

SpecPanic == InitUnwatched /\ [][NextPanic]_vars

\* C22: when a callback panics while the closures of a drain are being
\* dispatched, the loop goes on with the closures it had not invoked yet.
C22_PanicLeavesRestToInvoke ==
  [][last'.op = "callback panicked" =>
       /\ Len(pending') = Len(pending)
       /\ pending'[Len(pending)].queue = pending[Len(pending)].queue]_vars

\* A callback panicked with a closure of the same drain not yet invoked, and
\* nothing is left to invoke it.
C22_Witness ==
  /\ last.op = "callback panicked"
  /\ last.args.left # <<>>
  /\ pending = <<>>

\* When the JavaScript function of a listener throws, the loop goes on with
\* the closures it had not invoked yet.
ThrowLeavesRestToInvoke ==
  [][last'.op = "callback threw" =>
       /\ Len(pending') = Len(pending)
       /\ pending'[Len(pending)].queue = pending[Len(pending)].queue]_vars

\* ------------------------------------------ specification: target's clock

\* Writers add events of any index to the devices of stream 1 and to device
\* 1 of stream 2, and the clock is asked for one stream or for all.
NextGaps ==
  \/ \E s \in Streams, d \in Devices, idx \in 0..(MaxLen - 1) :
       /\ s = 2 => d = 1
       /\ WriterAddsEvent(s, d, idx)
  \/ \E f \in {None} \cup {Some(s) : s \in Streams} : GetClock(f)

SpecGaps == InitUnrecorded /\ [][NextGaps]_vars

\* Whether the stored indices of a device of a stream miss an index below
\* one they hold.
MissingIndex(s, d) ==
  \E i \in db_indices(db, s, d) : i > 0 /\ (i - 1) \notin db_indices(db, s, d)

\* C23: get_clock, for one stream or for all, panics when a device of a
\* stream it covers misses an index, and otherwise returns a clock in which
\* every count n stands for stored indices that are exactly 0 .. n-1.
C23_ClockOnlyForContiguousIndices ==
  last.op = "get_clock" =>
    IF \E s \in Covered(last.args.only_stream), d \in Devices :
         MissingIndex(s, d)
      THEN last.ret = [panic |-> TRUE]
      ELSE /\ ~last.ret.panic
           /\ \A s \in DOMAIN last.ret.clock :
                \A d \in DOMAIN last.ret.clock[s] :
                  db_indices(db, s, d) = 0..(last.ret.clock[s][d] - 1)
           /\ \A s \in Covered(last.args.only_stream), d \in Devices :
                db[s][d] # <<>> =>
                  /\ s \in DOMAIN last.ret.clock
                  /\ d \in DOMAIN last.ret.clock[s]

\* The clock of stream 1 was asked while device 1 holds indices 0 and 1 and
\* device 2 holds index 1 only: get_clock panicked.
C23_Witness ==
  /\ last.op = "get_clock"
  /\ last.args.only_stream = Some(1)
  /\ db_indices(db, 1, 1) = {0, 1}
  /\ db_indices(db, 1, 2) = {1}
  /\ last.ret.panic

\* -------------------------------------------- specification: JSON of events

\* The values of Timestamped<EventType<payload>> within the bounds.
TimestampedValues ==
  {Timestamped(tm, i, User(p)) : tm \in Times, i \in 0..MaxIdx, p \in Payloads}

\* JSON values offered to from_json that no to_json need have written: each
\* field is well formed or not, and the event may carry the Meta tag.
ForeignJsons ==
  {[timestamp |-> tj, within_device_events_index |-> ij, event |-> ej] :
     tj \in {timestamp_to_json(tm) : tm \in Times} \cup {BadJson},
     ij \in {index_to_json(0), BadJson},
     ej \in {event_type_to_json(User(p)) : p \in Payloads}
            \cup {BadJson, [Meta |-> payload_to_json(1)]}}
  \cup {BadJson}

\* A value is at hand; nothing else has happened.
InitValue ==
  /\ streams = <<>>
  /\ listeners = {}
  /\ keys_issued = 0
  /\ engines = NoEngines
  /\ sync_states = <<>>
  /\ now = 0
  /\ db = EmptyDb
  /\ sync = NoSync
  /\ pending = <<>>
  /\ borrow = Free
  /\ invoked = {}
  /\ last \in {Called("value", x, <<>>) : x \in TimestampedValues}
  /\ window = WindowOff
  /\ drained = NoDrain
  /\ snap = SnapOff

\* Event::to_json of the value at hand.
ToJson ==
  /\ last.op = "value"
  /\ last' = Called("to_json", timestamped_to_json(last.ret), [x |-> last.ret])
  /\ UNCHANGED <<streams, listeners, keys_issued, engines, sync_states, now, db, sync,
                 pending, borrow, invoked, window, drained, snap>>

\* Event::from_json of the JSON to_json has written.
FromJson ==
  /\ last.op = "to_json"
  /\ last' = Called("from_json", timestamped_from_json(last.ret),
                [x |-> last.args.x, json |-> last.ret])
  /\ UNCHANGED <<streams, listeners, keys_issued, engines, sync_states, now, db, sync,
                 pending, borrow, invoked, window, drained, snap>>

\* Event::from_json of JSON that came from elsewhere.
FromForeignJson(json) ==
  /\ last.op = "value"
  /\ last' = Called("from_json of foreign JSON", timestamped_from_json(json),
                [json |-> json])
  /\ UNCHANGED <<streams, listeners, keys_issued, engines, sync_states, now, db, sync,
                 pending, borrow, invoked, window, drained, snap>>

NextRoundTrip ==
  \/ ToJson
  \/ FromJson
  \/ \E json \in ForeignJsons : FromForeignJson(json)

SpecRoundTrip == InitValue /\ [][NextRoundTrip]_vars

NextSignal ==
  \/ \E s \in Streams : Shorter(s, 1, ShortLen) /\ AddRawEvent(s, 1, 1, None)
  \/ \E f \in {None, Some(1)} : SyncStart(f, None)
  \/ SyncPullClock
  \/ SyncPull
  \/ SyncSaveClock
  \/ SyncWrite
  \/ SyncRefresh
  \/ SyncFails

SpecSignal == InitUnwatched /\ [][NextSignal]_vars

\* C25: when a sync call ends, however it ends, the streams for which it
\* posted the cross-tab message are exactly the streams of which it wrote
\* at least one event to the target.
C25_SignalForEveryWrittenStream ==
  [][(sync.pc # "idle" /\ sync'.pc = "idle") =>
       sync.signals = sync.wrote]_vars

\* A sync call returned an error after it had written an event of stream 1
\* to the target, and it posted no message.
C25_Witness ==
  /\ last.op = "sync_with_indexeddb"
  /\ last.ret = "Err"
  /\ "wrote" \in DOMAIN snap
  /\ snap.wrote = {1}
  /\ snap.signals = {}
  /\ Len(db[1][1]) > Len(snap.pre.db[1][1])

\* A sync call posts no message for a stream of which it wrote nothing, and
\* a call that returns Ok has posted one for every stream it wrote to.
SignalWhenPushCompletes ==
  /\ [](sync.signals \subseteq sync.wrote)
  /\ [][(sync.pc = "refresh" /\ sync'.pc = "idle") =>
          sync.signals = sync.wrote]_vars

\* ---------------------------------------- specification: retried syncs

\* Between sync calls the application appends to both streams and another
\* writer fills the target; syncs of stream 1 or of all streams run, and any
\* backend call a sync awaits may fail.
NextRetry ==
  \/ \E s \in Streams :
       /\ sync.pc = "idle"
       /\ Shorter(s, 1, IF s = 1 THEN ShortLen ELSE 1)
       /\ AddRawEvent(s, 1, 1, None)
  \/ sync.pc = "idle" /\ Len(db[1][2]) < RemoteLen /\ OtherTabWrites(1, 2)
  \/ \E f \in {None, Some(1)} : SyncStart(f, None)
  \/ SyncPullClock
  \/ SyncPull
  \/ SyncSaveClock
  \/ SyncWrite
  \/ SyncRefresh
  \/ SyncFails

SpecRetry == InitUnwatched /\ [][NextRetry]_vars

\* No two events of the log have the same index.
NoEventTwice(log) ==
  \A i, j \in 1..Len(log) :
    log[i].within_device_events_index = log[j].within_device_events_index
      => i = j

\* C26: when a sync call has returned success after sync calls with the same
\* filter that returned errors, with no mutation by the application or
\* another writer from the start of the first failed call on, then for every
\* stream covered and every device the engine and the target both hold the
\* longer of the two logs they held when the first failed call began (what
\* one successful sync from that state leaves), and no log holds an event
\* twice.
C26_RetryEndsAsOneSync ==
  (snap.taken /\ snap.after_failure /\ sync.pc = "idle") =>
    \A s \in Covered(snap.filter), d \in Devices :
      LET longer == Longer(EngineLog(snap.origin.streams, s, d),
                           TargetLog(snap.origin.db, s, d))
      IN /\ EngineLog(streams, s, d) = longer
         /\ TargetLog(db, s, d) = longer
         /\ NoEventTwice(EngineLog(streams, s, d))
         /\ NoEventTwice(TargetLog(db, s, d))

\* A sync has returned success after a sync that failed partway: the failed
\* one had pulled an event of device 2 and pushed one of the engine's two
\* events of device 1, and the retry pushed the other.
C26_Witness ==
  /\ snap.taken
  /\ snap.after_failure
  /\ sync.pc = "idle"
  /\ last.op = "sync_with_indexeddb"
  /\ last.ret = "Ok"
  /\ Len(EngineLog(snap.origin.streams, 1, 2)) = 0
  /\ Len(EngineLog(snap.pre.streams, 1, 2)) = 1
  /\ Len(snap.origin.db[1][1]) = 0
  /\ Len(snap.pre.db[1][1]) = 1
  /\ Len(db[1][1]) = 2

\* ------------------------------------------ specification: dirty states

\* Listeners register; callers write events and batches to stream 1 with any
\* modifier, or only acquire a handle of it; notifications are drained.
NextDirty ==
  \/ RegisterListener
  \/ \E m \in Modifiers : GetOrInsertDefault(1, m)
  \/ \E m \in Modifiers :
       \E b \in NextBatches(1, 1) \cup {<<Timestamped(0, MaxIdx, User(1))>>} :
         Shorter(1, 1, MaxLen) /\ AddDeviceEvents(1, 1, b, m)
  \/ \E m \in Modifiers : Shorter(1, 1, MaxLen) /\ AddRawEvent(1, 1, 1, m)
  \/ Drain

SpecDirty == InitTraced /\ [][NextDirty]_vars

\* The table of the dirty states: whether a write with the modifier takes
\* the state before to the state after.
TableHolds(before, modifier, after) ==
  /\ (before = Clean /\ modifier # None) => after = DirtyExcept(modifier[1])
  /\ (before = Clean /\ modifier = None) => after = DirtyAll
  /\ \A k \in Keys :
       /\ (before = DirtyExcept(k) /\ modifier = Some(k))
            => after = DirtyExcept(k)
       /\ (before = DirtyExcept(k) /\ modifier # Some(k))
            => after = DirtyAll
  /\ before = DirtyAll => after = DirtyAll

\* C27: a step in which add_raw_event writes to a stream through the handle
\* acquired with its modifier takes the stream's dirty state (DirtyAll when
\* the call has just created the stream) to the state the table gives:
\* Clean with Some(k) to DirtyExcept(k), Clean with None to DirtyAll,
\* DirtyExcept(k) with Some(k) to DirtyExcept(k), DirtyExcept(k) with another
\* key or None to DirtyAll, DirtyAll to DirtyAll. A step that only acquires
\* the handle of an existing stream, or whose batch is dropped before any
\* write, leaves the dirty states as they were.
C27_WriteFollowsDirtyTable ==
  /\ [][(last'.op = "add_raw_event" /\ streams' # streams) =>
          LET s == last'.args.stream
          IN TableHolds(IF s \in DOMAIN streams
                          THEN streams[s].dirty_state ELSE DirtyAll,
                        last'.args.modifier,
                        streams'[s].dirty_state)]_vars
  /\ [][((last'.op = "get_or_insert_default" /\ ~last'.args.created)
          \/ (last'.op = "add_device_events" /\ last'.rejected)) =>
          \A s \in DOMAIN streams :
            streams'[s].dirty_state = streams[s].dirty_state]_vars

\* Since the last drain the stream was written with Some(1) and then with
\* Some(2): the second write found DirtyExcept(1) and left DirtyAll.
C27_Witness ==
  /\ last.op = "add_raw_event"
  /\ last.args.modifier = Some(2)
  /\ ~window[1].created
  /\ window[1].mods = {Some(1), Some(2)}
  /\ streams[1].dirty_state = DirtyAll

\* ------------------------------------------- specification: the pull step

\* The application appends to stream 1, writers of the database add events
\* of any index in any order, and syncs of stream 1 run.
NextPull ==
  \/ Shorter(1, 1, ShortLen) /\ AddRawEvent(1, 1, 1, None)
  \/ \E d \in Devices, idx \in 0..(ShortLen - 1) : WriterAddsEvent(1, d, idx)
  \/ SyncStart(Some(1), None)
  \/ SyncPull
  \/ SyncSaveClock
  \/ SyncWrite
  \/ SyncRefresh

SpecPull == InitUnwatched /\ [][NextPull]_vars

\* The events of a log whose indices are distinct, by increasing index.
SortedByIndex(log) ==
  [i \in 1..Len(log) |->
     CHOOSE e \in {log[j] : j \in 1..Len(log)} :
       Cardinality({j \in 1..Len(log) :
                      log[j].within_device_events_index
                        < e.within_device_events_index}) = i - 1]

\* The target's events of a device that the engine, holding n of the
\* device, lacks, in the order the target returns them.
FreshOf(dbs, s, d, n) ==
  LET fresh(e) == e.within_device_events_index >= n
  IN SelectSeq(TargetLog(dbs, s, d), fresh)

\* The pull step of a sync of stream 1 leaves, for the device, the engine's
\* log followed by the target's fresh events in increasing index order.
PullAppendsFresh(d) ==
  (sync.pc = "pull" /\ last'.op = "load_from_indexeddb") =>
    LET log == EngineLog(streams, 1, d)
    IN EngineLog(streams', 1, d)
         = log \o SortedByIndex(FreshOf(db, 1, d, Len(log)))

PullAppendsFreshOfOrderedTarget ==
  [][\A d \in Devices :
       Contiguous(TargetLog(db, 1, d)) => PullAppendsFresh(d)]_vars

\* ------------------------------------------- specification: the push step

\* The application appends to both streams and another writer fills the
\* target, before and during syncs of stream 1 or of all streams.
NextPush ==
  \/ \E s \in Streams :
       /\ Shorter(s, 1, IF s = 1 THEN ShortLen ELSE 1)
       /\ AddRawEvent(s, 1, 1, None)
  \/ Len(db[1][2]) < RemoteLen /\ OtherTabWrites(1, 2)
  \/ \E f \in {None, Some(1)} : SyncStart(f, None)
  \/ SyncPullClock
  \/ SyncPull
  \/ SyncSaveClock
  \/ SyncWrite
  \/ SyncRefresh

SpecPush == InitUnwatched /\ [][NextPush]_vars

\* The count the target's clock holds for the device, 0 when it has none.
TargetCount(counts, d) == IF d \in DOMAIN counts THEN counts[d] ELSE 0

\* The engine's events of the device with index at least c, in stored order.
UnsyncedOf(strs, s, d, c) ==
  LET unsynced(e) == e.within_device_events_index >= c
  IN SelectSeq(EngineLog(strs, s, d), unsynced)

\* The indices of the log increase.
IncreasingIndex(log) ==
  \A i, j \in 1..Len(log) :
    i < j => log[i].within_device_events_index
               < log[j].within_device_events_index

\* The step is one of the push of a sync: the target's clock has returned or
\* an add_event has returned Ok.
PushProgressed ==
  /\ sync.pc \in {"save_clock", "write"}
  /\ sync'.pc \notin {"idle", "panicked"}
  /\ sync' # sync
  /\ sync' # [sync EXCEPT !.disturbed = TRUE]

\* The step begins the writes of a device.
PushEntered ==
  /\ sync'.pc = "write"
  /\ sync.pc = "save_clock" \/ sync'.device # sync.device

\* The devices the step passes over without a write.
PushPassed ==
  IF PushEntered
    THEN {sync.devices[i] : i \in 1..Len(sync.devices)}
           \ ({sync'.devices[i] : i \in 1..Len(sync'.devices)}
                \cup {sync'.device})
  ELSE IF sync'.pc = "write" THEN {}
  ELSE {sync.devices[i] : i \in 1..Len(sync.devices)}

\* C29: in the push of a stream, the writes of a device begin only when the
\* engine's count exceeds the target's count (0 when the target has none),
\* with exactly the engine's events of index at least the target's count to
\* write, by increasing index; each add_event call appends the next of them
\* to the target and changes nothing else; and every device passed over has
\* a target count of at least the engine's count.
C29_PushWritesUnsyncedInOrder ==
  [][PushProgressed =>
       LET s == sync.stream
       IN /\ PushEntered =>
               LET d == sync'.device
                   c == TargetCount(sync'.counts, d)
               IN /\ Len(EngineLog(streams, s, d)) > c
                  /\ sync'.queue = UnsyncedOf(streams, s, d, c)
                  /\ IncreasingIndex(sync'.queue)
          /\ \A d \in PushPassed :
               Len(EngineLog(streams, s, d)) <= TargetCount(sync'.counts, d)
          /\ IF sync.pc = "write"
               THEN /\ db' = [db EXCEPT ![s][sync.device] =
                                Append(@, event_record(Head(sync.queue)))]
                    /\ IF sync'.pc = "write" /\ ~PushEntered
                         THEN sync'.queue = Tail(sync.queue)
                         ELSE Tail(sync.queue) = <<>>
               ELSE db' = db]_vars

\* The push of stream 1 is over: it wrote the engine's two events of device
\* 1, of which the target had none, and nothing for device 2, of which the
\* target holds as many events as the engine.
C29_Witness ==
  /\ sync.pc = "refresh"
  /\ sync.stream = 1
  /\ sync.written = 2
  /\ Len(sync.pre.db[1][1]) = 0
  /\ Len(db[1][1]) = 2
  /\ Len(EngineLog(streams, 1, 2)) >= 1
  /\ Len(db[1][2]) >= Len(EngineLog(streams, 1, 2))
  /\ db[1][2] = sync.pre.db[1][2]

\* -------------------------------------- specification: sync in progress

\* The wall clock advances, the application appends to stream 1, and syncs
\* of stream 1 run one after another; a backend call of a sync may fail.
NextProgress ==
  \/ Tick
  \/ Shorter(1, 1, ShortLen) /\ AddRawEvent(1, 1, 1, None)
  \/ SyncStart(Some(1), None)
  \/ SyncPull
  \/ SyncSaveClock
  \/ SyncWrite
  \/ SyncRefresh
  \/ SyncFails

SpecProgress == InitUnrecorded /\ [][NextProgress]_vars

\* The derived sync-in-progress of a target: last_sync_started is later than
\* last_sync_finished, a missing finish being earlier than any start.
InProgress(target) ==
  LET entry == sync_state_entry(sync_states, target)
  IN /\ entry.last_sync_started # None
     /\ \/ entry.last_sync_finished = None
        \/ entry.last_sync_started[1] > entry.last_sync_finished[1]

\* C30: last_sync_started > last_sync_finished holds for the target exactly
\* while a sync of it is running, from its mark_sync_started until its
\* mark_sync_finished.
C30_InProgressExactlyWhileRunning ==
  InProgress("Opfs") <=> sync.pc # "idle"

\* A sync is running that was started at the wall-clock reading at which the
\* sync before it finished.
C30_Witness ==
  /\ sync.pc # "idle"
  /\ "Opfs" \in DOMAIN sync_states
  /\ sync_states["Opfs"].last_sync_finished # None
  /\ sync_states["Opfs"].last_sync_started
       = sync_states["Opfs"].last_sync_finished

\* The derived sync-in-progress holds only while a sync is running, and
\* holds while one is running that started at a later reading of the clock
\* than the finish of the one before.
InProgressWhenClockAdvanced ==
  /\ InProgress("Opfs") => sync.pc # "idle"
  /\ (/\ sync.pc # "idle"
      /\ sync_states["Opfs"].last_sync_started
           # sync_states["Opfs"].last_sync_finished)
       => InProgress("Opfs")

\* -------------------------------------- specification: overlapping syncs

\* The application appends to both streams, before and during syncs; a sync
\* of stream 1 or of all streams may be started while another is suspended
\* at an await, and the two proceed in any interleaving.
NextOverlap ==
  \/ \E s \in Streams :
       /\ Shorter(s, 1, IF s = 1 THEN ShortLen ELSE 1)
       /\ AddRawEvent(s, 1, 1, None)
  \/ \E f \in {None, Some(1)} : SyncStart(f, None)
  \/ \E f \in {None, Some(1)} : SyncStartOverlapping(f, None)
  \/ SyncSwitch
  \/ SyncPullClock
  \/ SyncPull
  \/ SyncSaveClock
  \/ SyncWrite
  \/ SyncRefresh

SpecOverlap == InitUnrecorded /\ [][NextOverlap]_vars

\* Two sync calls overlapped, both have returned, and the one that returned
\* last returned Ok.
BothFinished ==
  /\ sync.pc = "idle"
  /\ last.op = "sync_with_indexeddb"
  /\ last.ret = "Ok"
  /\ last.args.overlapped

\* C31: when two overlapping syncs of the target have both finished, the
\* remote clock recorded for the target equals the target clock read by the
\* sync that completed last.
C31_RecordedClockIsLastRead ==
  BothFinished =>
    sync_state_entry(sync_states, "Opfs").remote_clock = last.args.clock

\* C31, amended: when two overlapping syncs of the target have both
\* finished and the one that completed last returned Ok, the remote clock
\* recorded for the target agrees, on every stream that sync read, with the
\* target clock it read.
C31_RecordedClockAgreesWithLastRead ==
  BothFinished =>
    LET recorded == sync_state_entry(sync_states, "Opfs").remote_clock
    IN \A s \in DOMAIN last.args.clock :
         /\ s \in DOMAIN recorded
         /\ recorded[s] = last.args.clock[s]

\* Two overlapping syncs have finished; the one that completed last read a
\* clock with two events of device 1 in stream 1, more than the first one
\* had recorded for it.
C31_Witness ==
  /\ BothFinished
  /\ ClockCount(last.args.clock, 1, 1) = 2
  /\ Len(db[1][1]) = 2
  /\ sync_states["Opfs"].last_sync_error = None

\* ------------------------------------------ specification: loaded marks

\* Listeners register; callers write events to stream 1 and mark either
\* stream loaded, with any modifier; notifications are drained.
NextLoaded ==
  \/ RegisterListener
  \/ \E m \in Modifiers : Shorter(1, 1, ShortLen) /\ AddRawEvent(1, 1, 1, m)
  \/ \E s \in Streams, m \in Modifiers : MarkLoaded(s, m)
  \/ Drain

SpecLoaded == InitTraced /\ [][NextLoaded]_vars

\* C32: a mark_loaded(stream, m) step on a stream that exists and is not yet
\* marked loaded returns true, sets loaded_at_least_once, takes the dirty
\* state where the table gives for m, and changes neither the events nor
\* any other stream; on a stream that is absent or already marked it returns
\* false and changes no stream (none is created); and a stream marked loaded
\* stays marked in every step.
C32_MarkLoadedOnceAndOnlyExisting ==
  /\ [][last'.op = "mark_loaded" =>
          LET s == last'.args.stream
          IN IF s \in DOMAIN streams /\ ~streams[s].loaded_at_least_once
               THEN /\ last'.ret = TRUE
                    /\ DOMAIN streams' = DOMAIN streams
                    /\ streams'[s].loaded_at_least_once
                    /\ TableHolds(streams[s].dirty_state, last'.args.modifier,
                                  streams'[s].dirty_state)
                    /\ streams'[s].store = streams[s].store
                    /\ \A o \in DOMAIN streams \ {s} :
                         streams'[o] = streams[o]
               ELSE /\ last'.ret = FALSE
                    /\ streams' = streams]_vars
  /\ [][\A s \in DOMAIN streams :
          streams[s].loaded_at_least_once =>
            s \in DOMAIN streams' /\ streams'[s].loaded_at_least_once]_vars

\* mark_loaded with Some(1) has just returned true on a stream that was
\* Clean: the stream is marked and DirtyExcept(1).
C32_Witness ==
  /\ last.op = "mark_loaded"
  /\ last.ret = TRUE
  /\ last.args.stream = 1
  /\ last.args.modifier = Some(1)
  /\ streams[1].loaded_at_least_once
  /\ streams[1].dirty_state = DirtyExcept(1)

\* ------------------------------ specification: the store's own unit tests

\* The unit tests of data_model use an EventStreamStore of plain ordered
\* values; the values 1..MaxValue stand for them.
MaxValue == 3
Values == 1..MaxValue

\* EventStreamStore::default() of the tests: no device holds a value.
EmptyValueStore == [d \in Devices |-> <<>>]

\* A value put in its place in an ascending sequence without repeats; a
\* value the sequence already holds is not put in again.
RECURSIVE insert_ordered(_, _)
insert_ordered(seq, v) ==
  IF seq = <<>> THEN <<v>>
  ELSE IF v = Head(seq) THEN seq
  ELSE IF v < Head(seq) THEN <<v>> \o seq
  ELSE <<Head(seq)>> \o insert_ordered(Tail(seq), v)

\* add_event_unchecked keeping a device's values in the order of the calls.
add_event_unchecked_appending(store, device, event) ==
  [store EXCEPT ![device] = Append(@, event)]

\* add_event_unchecked(device, event) as the unit tests show it: a device's
\* values are kept as an ordered set, whatever the order of the calls.
add_event_unchecked(store, device, event) ==
  [store EXCEPT ![device] = insert_ordered(@, event)]

\* iter() of the tests' store: the k-way merge of the devices' sequences,
\* the least head first.
RECURSIVE iter_values(_)
iter_values(store) ==
  LET live == {d \in Devices : store[d] # <<>>}
  IN IF live = {} THEN <<>>
     ELSE LET d == CHOOSE c \in live :
                     \A o \in live :
                       \/ Head(store[c]) < Head(store[o])
                       \/ Head(store[c]) = Head(store[o]) /\ c <= o
          IN <<Head(store[d])>>
               \o iter_values([store EXCEPT ![d] = Tail(@)])

\* A test begins: an empty store, nothing appended.
InitTested ==
  /\ streams = <<>>
  /\ listeners = {}
  /\ keys_issued = 0
  /\ engines = NoEngines
  /\ sync_states = <<>>
  /\ now = 0
  /\ db = EmptyDb
  /\ sync = NoSync
  /\ pending = <<>>
  /\ borrow = Free
  /\ invoked = {}
  /\ last = Called("default", 0,
               [store |-> EmptyValueStore, appended |-> EmptyValueStore])
  /\ window = WindowOff
  /\ drained = NoDrain
  /\ snap = SnapOff

\* events.add_event_unchecked(device, value); the history keeps the values
\* in the order of the calls.
AddEventUnchecked(device, value) ==
  /\ Len(last.args.appended[device]) < MaxLen
  /\ last' = Called("add_event_unchecked", 0,
                [store |-> add_event_unchecked(last.args.store, device, value),
                 appended |-> [last.args.appended EXCEPT
                                 ![device] = Append(@, value)]])
  /\ UNCHANGED <<streams, listeners, keys_issued, engines, sync_states, now, db, sync,
                 pending, borrow, invoked, window, drained, snap>>

\* events.iter().cloned().collect().
IterCollect ==
  /\ last' = Called("iter", iter_values(last.args.store), last.args)
  /\ UNCHANGED <<streams, listeners, keys_issued, engines, sync_states, now, db, sync,
                 pending, borrow, invoked, window, drained, snap>>

NextTested ==
  \/ \E d \in Devices, v \in Values : AddEventUnchecked(d, v)
  \/ IterCollect

SpecTested == InitTested /\ [][NextTested]_vars

\* The sequence ascends strictly.
Ascending(seq) == \A i, j \in 1..Len(seq) : i < j => seq[i] < seq[j]

NextCopies ==
  \/ /\ Shorter(1, 1, ShortLen)
     /\ AddRawEvent(1, 1, (Len(EngineLog(streams, 1, 1)) % 2) + 1, None)
  \/ Len(db[1][2]) < RemoteLen /\ OtherTabWrites(1, 2)
  \/ SyncStart(None, None)
  \/ SyncStartOverlapping(Some(1), None)
  \/ SyncSwitch
  \/ SyncPullClock
  \/ SyncPull
  \/ SyncSaveClock
  \/ SyncWrite
  \/ SyncRefresh
  \/ SyncFails
  \/ \E landed \in BOOLEAN : SyncDropped(landed)

SpecCopies == InitUnrecorded /\ [][NextCopies]_vars

\* C34: with each device's events appended by one engine only, the target's
\* copy of the log of the engine's own device is a prefix of the engine's
\* log, and the engine's copy of the log of the other engine's device is a
\* prefix of the target's copy: no two copies hold different events at the
\* same index.
C34_CopiesArePrefixes ==
  \A s \in Streams :
    /\ Prefix(TargetLog(db, s, 1), EngineLog(streams, s, 1))
    /\ Prefix(EngineLog(streams, s, 2), TargetLog(db, s, 2))

\* The engine holds two events of its device with different payloads, of
\* which the target holds the first, and one of the two events the target
\* holds of the other device.
C34_Witness ==
  /\ Len(EngineLog(streams, 1, 1)) = 2
  /\ EngineLog(streams, 1, 1)[1].event # EngineLog(streams, 1, 1)[2].event
  /\ Len(db[1][1]) = 1
  /\ Len(EngineLog(streams, 1, 2)) = 1
  /\ Len(db[1][2]) = 2

\* ------------------------------ specification: what the engine believes

\* The target only grows (the engine pushes device 1, the other tab's engine
\* device 2) and the recorded clock is written by sync_with_indexeddb alone;
\* syncs overlap and fail, and the application asks for the earliest
\* unsynced event at any moment.
NextBelief ==
  \/ /\ Shorter(1, 1, ShortLen)
     /\ AddRawEvent(1, 1, 1, None)
  \/ Len(db[1][2]) < RemoteLen /\ OtherTabWrites(1, 2)
  \/ SyncStart(None, None)
  \/ SyncStartOverlapping(Some(1), None)
  \/ SyncSwitch
  \/ SyncPullClock
  \/ SyncPull
  \/ SyncSaveClock
  \/ SyncWrite
  \/ SyncRefresh
  \/ SyncFails
  \/ GetTimestampOfEarliestUnsyncedEvent("Opfs")

SpecBelief == InitUnrecorded /\ [][NextBelief]_vars

\* Every event the engine holds is stored in the target.
AllStoredInTarget ==
  \A s \in DOMAIN streams : \A d \in Devices :
    Prefix(EngineLog(streams, s, d), TargetLog(db, s, d))

\* C35: for a target that only grows, the remote clock recorded for it never
\* exceeds the number of events the target holds of any stream and device,
\* and whenever get_timestamp_of_earliest_unsynced_event(target) is None
\* every locally stored event is stored in the target.
C35_RecordedClockIsDominated ==
  /\ \A s \in Streams : \A d \in Devices :
       ClockCount(RecordedClock("Opfs"), s, d) <= Len(db[s][d])
  /\ get_timestamp_of_earliest_unsynced_event(streams, sync_states, "Opfs")
       = None => AllStoredInTarget

\* The call returned None for an engine that holds events of both devices,
\* while the target has since grown beyond the recorded clock.
C35_Witness ==
  /\ last.op = "get_timestamp_of_earliest_unsynced_event"
  /\ last.ret = None
  /\ Len(EngineLog(streams, 1, 1)) = 2
  /\ Len(EngineLog(streams, 1, 2)) = 1
  /\ ClockCount(RecordedClock("Opfs"), 1, 2) = 1
  /\ Len(db[1][2]) = 2

\* ------------------------------------ specification: interleaved pushes

\* Pushes to one target in any interleaving: a sync of all streams
\* overlapped by a sync of stream 1 (both push the same events from counts
\* read at different moments), pushes of another engine for either device,
\* local appends during a push, and pushes that fail or are abandoned
\* partway, with the add in flight stored or not.
NextInterleave ==
  \/ /\ Shorter(1, 1, ShortLen)
     /\ AddRawEvent(1, 1, 1, None)
  \/ \E d \in Devices : Len(db[1][d]) < RemoteLen /\ OtherTabWrites(1, d)
  \/ SyncStart(None, None)
  \/ SyncStartOverlapping(Some(1), None)
  \/ SyncSwitch
  \/ SyncPullClock
  \/ SyncPull
  \/ SyncSaveClock
  \/ SyncWrite
  \/ SyncRefresh
  \/ SyncFails
  \/ \E landed \in BOOLEAN : SyncDropped(landed)

SpecInterleave == InitUnrecorded /\ [][NextInterleave]_vars

\* C36: in every state of every interleaving of pushes to one target, with
\* pushes failing partway and overlapping, the indices the target stores
\* for a stream and device are exactly 0..n-1 and each is stored once.
C36_TargetLogGapFreeAndDuplicateFree ==
  \A s \in Streams : \A d \in Devices :
    /\ db_indices(db, s, d) = 0..(Len(db[s][d]) - 1)
    /\ \A i, j \in 1..Len(db[s][d]) :
         db[s][d][i].event_index = db[s][d][j].event_index => i = j

\* A sync is suspended at a write of an event the target already holds,
\* stored by the overlapping sync, and a push failed before.
C36_Witness ==
  /\ sync.pc = "write"
  /\ sync.overlapped
  /\ sync.device = 1
  /\ Head(sync.queue).within_device_events_index \in db_indices(db, 1, 1)
  /\ Len(db[1][1]) = 2
  /\ "Opfs" \in DOMAIN sync_states
  /\ sync_states["Opfs"].last_sync_error # None

\* ------------------------------------ specification: two engines, one target

\* Two engines, each in its own tab, share the target db. Engine e appends
\* the events of device e only. An engine is its EventStore (streams,
\* sync_states) and its running sync_with_indexeddb call (sync, as NoSync);
\* history: pulled and pushed tell whether its running or last sync added
\* an event to the engine or to the target, appended whether the
\* application appended since that sync began, quiet whether its last sync
\* returned Ok having transferred nothing with no append since it began, and
\* began the number of events the target held when that sync began.
Engines == {1, 2}

NoEngine ==
  [streams |-> <<>>, sync_states |-> <<>>, sync |-> NoSync,
   pulled |-> FALSE, pushed |-> FALSE, appended |-> FALSE, quiet |-> FALSE,
   began |-> <<>>]

\* The number of events the target holds of each stream and device.
TargetCounts(dbs) == [s \in Streams |-> [d \in Devices |-> Len(dbs[s][d])]]

InitEngines ==
  /\ streams = <<>>
  /\ listeners = {}
  /\ keys_issued = 0
  /\ sync_states = <<>>
  /\ now = 0
  /\ db = EmptyDb
  /\ sync = NoSync
  /\ pending = <<>>
  /\ borrow = Free
  /\ invoked = {}
  /\ last = Op("default", 0)
  /\ window = WindowOff
  /\ drained = NoDrain
  /\ snap = SnapOff
  /\ engines = [e \in Engines |-> NoEngine]

\* What an action of one of the engines leaves alone.
OnlyEngines ==
  UNCHANGED <<streams, listeners, keys_issued, sync_states, now, sync,
              pending, borrow, invoked, last, window, drained, snap>>

\* EventStore::add_raw_event of engine e, for its own device.
EngineAddRawEvent(e, stream, payload) ==
  LET en == engines[e]
      r == add_raw_event(en.streams, stream, e, payload, None, now)
  IN /\ engines' = [engines EXCEPT ![e] =
                      [en EXCEPT !.streams = r.streams, !.appended = TRUE,
                                 !.quiet = FALSE]]
     /\ UNCHANGED db
     /\ OnlyEngines

\* sync_with_indexeddb(None, None) of engine e is called: mark_sync_started,
\* then the call awaits get_clock(None).
EngineSyncStart(e) ==
  LET en == engines[e]
  IN /\ en.sync.pc = "idle"
     /\ engines' = [engines EXCEPT ![e] =
                      [en EXCEPT
                         !.sync_states = mark_sync_started(@, "Opfs", now),
                         !.sync = [NoSync EXCEPT !.pc = "pull_clock"],
                         !.pulled = FALSE, !.pushed = FALSE,
                         !.appended = FALSE, !.quiet = FALSE,
                         !.began = TargetCounts(db)]]
     /\ UNCHANGED db
     /\ OnlyEngines

\* get_clock(None) returns the streams engine e is to pull.
EngineSyncPullClock(e) ==
  LET en == engines[e]
      r == get_clock(db, None)
      ids == SortedSeq(DOMAIN r.clock)
  IN /\ en.sync.pc = "pull_clock"
     /\ engines' = [engines EXCEPT ![e].sync =
                      IF r.panic THEN Panicked
                      ELSE IF ids = <<>> THEN begin_save(en.sync, en.streams)
                      ELSE [en.sync EXCEPT !.pc = "pull", !.todo = ids]]
     /\ UNCHANGED db
     /\ OnlyEngines

\* load_from_indexeddb of the next stream engine e is to pull.
EngineSyncPull(e) ==
  LET en == engines[e]
      stream == Head(en.sync.todo)
      loaded == load_from_indexeddb(en.streams, db, stream, None)
  IN /\ en.sync.pc = "pull"
     /\ engines' = [engines EXCEPT ![e] =
                      [en EXCEPT
                         !.streams = loaded,
                         !.sync = IF Tail(en.sync.todo) = <<>>
                                    THEN begin_save(en.sync, loaded)
                                    ELSE [en.sync EXCEPT !.todo = Tail(@)],
                         !.pulled = @ \/ vector_clock(loaded)
                                          # vector_clock(en.streams)]]
     /\ UNCHANGED db
     /\ OnlyEngines

\* save_to_indexeddb of engine e: get_clock(Some(stream)) returns.
EngineSyncSaveClock(e) ==
  LET en == engines[e]
      r == get_clock(db, Some(en.sync.stream))
      device_counts_in_db ==
        IF en.sync.stream \in DOMAIN r.clock
          THEN r.clock[en.sync.stream] ELSE <<>>
  IN /\ en.sync.pc = "save_clock"
     /\ engines' = [engines EXCEPT ![e].sync =
                      IF r.panic THEN Panicked
                      ELSE next_device(
                             [en.sync EXCEPT !.counts = device_counts_in_db],
                             en.streams)]
     /\ UNCHANGED db
     /\ OnlyEngines

\* The add_event engine e awaits returns: stored, and the push goes on to
\* its next await, or refused by the unique index, and the call returns the
\* error and mark_sync_finished(Some(error)).
EngineSyncWrite(e) ==
  LET en == engines[e]
      r == add_event(db, en.sync.stream, en.sync.device, Head(en.sync.queue))
      wrote == [en.sync EXCEPT !.queue = Tail(@), !.written = @ + 1,
                               !.wrote = @ \cup {en.sync.stream}]
  IN /\ en.sync.pc = "write"
     /\ db' = r.db
     /\ engines' = [engines EXCEPT ![e] =
                      IF r.ok
                        THEN [en EXCEPT
                                !.sync = IF wrote.queue = <<>>
                                           THEN next_device(wrote, en.streams)
                                           ELSE wrote,
                                !.pushed = TRUE]
                        ELSE [en EXCEPT
                                !.sync = NoSync,
                                !.sync_states =
                                   mark_sync_finished(@, "Opfs",
                                     Some("ConstraintError"), now)]]
     /\ OnlyEngines

\* The refreshed clock returns to engine e: update_sync_clock, the call
\* returns Ok and mark_sync_finished(None).
EngineSyncRefresh(e) ==
  LET en == engines[e]
      r == get_clock(db, None)
  IN /\ en.sync.pc = "refresh"
     /\ engines' = [engines EXCEPT ![e] =
                      IF r.panic THEN [en EXCEPT !.sync = Panicked]
                      ELSE [en EXCEPT
                              !.sync = NoSync,
                              !.sync_states =
                                 mark_sync_finished(
                                   update_sync_clock(@, "Opfs", r.clock),
                                   "Opfs", None, now),
                              !.quiet = ~en.pulled /\ ~en.pushed
                                          /\ ~en.appended]]
     /\ UNCHANGED db
     /\ OnlyEngines

\* Each engine appends up to ShortLen events of its device to stream 1
\* (payloads 1 and 2 in turn) and runs syncs one after another, the two
\* engines' steps interleaved.
NextConverge ==
  \/ \E e \in Engines :
       /\ Len(EngineLog(engines[e].streams, 1, e)) < ShortLen
       /\ EngineAddRawEvent(e, 1,
            (Len(EngineLog(engines[e].streams, 1, e)) % 2) + 1)
  \/ \E e \in Engines : EngineSyncStart(e)
  \/ \E e \in Engines : EngineSyncPullClock(e)
  \/ \E e \in Engines : EngineSyncPull(e)
  \/ \E e \in Engines : EngineSyncSaveClock(e)
  \/ \E e \in Engines : EngineSyncWrite(e)
  \/ \E e \in Engines : EngineSyncRefresh(e)

SpecConverge == InitEngines /\ [][NextConverge]_vars

\* The two engines hold the same log of every device of every stream, and
\* so the same iter() order and the same state(initial).
SameLogs ==
  /\ \A s \in Streams : \A d \in Devices :
       EngineLog(engines[1].streams, s, d) = EngineLog(engines[2].streams, s, d)
  /\ DOMAIN engines[1].streams = DOMAIN engines[2].streams
  /\ \A s \in DOMAIN engines[1].streams \cap DOMAIN engines[2].streams :
       /\ iter(engines[1].streams[s].store) = iter(engines[2].streams[s].store)
       /\ state(engines[1].streams[s].store, 0)
            = state(engines[2].streams[s].store, 0)

\* The last sync of each engine returned Ok having transferred nothing, and
\* the engine has appended nothing since that sync began.
BothQuiet == \A e \in Engines : engines[e].quiet

\* C37 as stated: once each engine has run a sync that transferred nothing,
\* with no append since, the two engines hold identical logs, iter() order
\* and state(initial).
C37_QuietEnginesAgree == BothQuiet => SameLogs

\* C37: once each engine has run a sync that transferred nothing and that
\* began after the last write of either engine to the target, with no
\* append since, the two engines hold identical logs, iter() order and
\* state(initial).
C37_QuietEnginesAgreeOnSettledTarget ==
  (BothQuiet /\ \A e \in Engines : engines[e].began = TargetCounts(db))
    => SameLogs

\* Both engines ran their quiet sync on the settled target, each holding
\* two events of its own device and two of the other's.
C37_Witness ==
  /\ BothQuiet
  /\ \A e \in Engines : engines[e].began = TargetCounts(db)
  /\ \A e \in Engines : \A d \in Devices :
       Len(EngineLog(engines[e].streams, 1, d)) = 2
  /\ EngineLog(engines[1].streams, 1, 1)[1].event
       # EngineLog(engines[1].streams, 1, 1)[2].event

\* ------------------------------ specification: the sync listener's cycle

\* The key of the listener Weapon::new registers: its callback hands the
\* stream it is notified of to the application's sync_stream function, which
\* runs Weapon::sync(stream, modifier = that key).
SyncListener == 1

\* EventStore::load_from_local_storage(store, directory, stream, modifier):
\* the events of the stream kept in local storage that the engine lacks are
\* added with the modifier, as load_from_indexeddb adds those of the
\* database.
load_from_local_storage(strs, dbs, stream, modifier) ==
  load_from_indexeddb(strs, dbs, stream, modifier)

\* The state after Weapon::new: the sync listener is registered.
InitCycle ==
  /\ streams = <<>>
  /\ listeners = {SyncListener}
  /\ keys_issued = 1
  /\ engines = NoEngines
  /\ sync_states = <<>>
  /\ now = 0
  /\ db = EmptyDb
  /\ sync = NoSync
  /\ pending = <<>>
  /\ borrow = Free
  /\ invoked = {}
  /\ last = Op("default", 0)
  /\ window = WindowOff
  /\ drained = NoDrain
  /\ snap = SnapOff

\* The closure of the sync listener runs: sync_stream is called with the
\* key and the stream, Weapon::sync(stream, modifier = key) is entered and
\* runs to its first await, beside a sync call already suspended if there
\* is one, and the closure returns to the loop.
ListenerCallsSync ==
  LET c == pending[Len(pending)].running
      call == [NoSync EXCEPT !.pc = "load", !.filter = Some(c.stream),
                             !.modifier = Some(c.key)]
  IN /\ Running
     /\ c.key = SyncListener
     /\ sync.pc = "idle" \/ sync.other = <<>>
     /\ sync' = IF sync.pc = "idle" THEN call
                ELSE [call EXCEPT !.overlapped = TRUE,
                                  !.other = [sync EXCEPT !.overlapped = TRUE]]
     /\ pending' = [pending EXCEPT ![Len(pending)].running = NotRunning]
     /\ invoked' = {}
     /\ last' = Op("callback returned", 0)
     /\ UNCHANGED <<streams, listeners, keys_issued, engines, sync_states,
                    now, db, borrow, window, drained, snap>>

\* The closure of a listener of subscribe_to_stream returns to the loop.
ListenerReturns ==
  /\ Running
  /\ pending[Len(pending)].running.key # SyncListener
  /\ CallbackReturn

\* Weapon::sync from the return of load_from_local_storage to its next
\* await: the loaded events are added, mark_loaded(stream, modifier), and
\* when it returns true flush_notifications drains and begins to call the
\* closures.
WeaponSyncLoad ==
  /\ sync.pc = "load"
  /\ pending = <<>>
  /\ borrow = Free
  /\ \E loaded \in {load_from_local_storage(streams, db, sync.filter[1],
                                             sync.modifier)} :
     \E r \in {mark_loaded(loaded, sync.filter[1], sync.modifier)} :
     \E f \in {flush_notifications(r.streams, listeners)} :
       /\ IF r.ret
            THEN /\ streams' = f.streams
                 /\ pending' = <<[queue |-> f.queue, running |-> NotRunning,
                                  holds |-> f.holds]>>
            ELSE /\ streams' = r.streams
                 /\ pending' = pending
       /\ last' = Op("mark_loaded", IF r.ret THEN 1 ELSE 0)
  /\ sync' = [sync EXCEPT !.pc = "remote"]
  /\ drained' = NoDrain
  /\ invoked' = {}
  /\ UNCHANGED <<listeners, keys_issued, engines, sync_states, now, db,
                 borrow, window, snap>>

\* The sync of Weapon::sync with the remote store, entered
\* (mark_sync_started) and up to the return of its download: the events of
\* the stream the engine lacks are added with the modifier.
WeaponSyncPull ==
  /\ sync.pc = "remote"
  /\ pending = <<>>
  /\ borrow = Free
  /\ streams' = load_from_indexeddb(streams, db, sync.filter[1], sync.modifier)
  /\ sync_states' = mark_sync_started(sync_states, "Opfs", now)
  /\ sync' = [sync EXCEPT !.pc = "save"]
  /\ last' = Op("load_from_indexeddb", 0)
  /\ drained' = NoDrain
  /\ invoked' = {}
  /\ UNCHANGED <<listeners, keys_issued, engines, now, db, pending, borrow,
                 window, snap>>

\* The upload begins: the call awaits the target's clock of the stream.
WeaponSyncSave ==
  /\ sync.pc = "save"
  /\ pending = <<>>
  /\ sync' = begin_save(sync, streams)
  /\ UNCHANGED <<streams, listeners, keys_issued, engines, sync_states, now,
                 db, pending, borrow, invoked, last, window, drained, snap>>

\* The add_event a sync call of Weapon::sync awaits returns: stored, and the
\* push goes on to its next await; or refused, and `?` ends Weapon::sync
\* with the error, FlushLater flushing as the call is left.
WeaponSyncWrite ==
  LET r == add_event(db, sync.stream, sync.device, Head(sync.queue))
      wrote == [sync EXCEPT !.queue = Tail(@), !.written = @ + 1,
                            !.wrote = @ \cup {sync.stream}]
      f == flush_notifications(streams, listeners)
  IN /\ sync.pc = "write"
     /\ pending = <<>>
     /\ borrow = Free
     /\ db' = r.db
     /\ IF r.ok
          THEN /\ sync' = IF wrote.queue = <<>>
                            THEN next_device(wrote, streams) ELSE wrote
               /\ UNCHANGED <<streams, sync_states, pending, last, drained,
                              invoked>>
          ELSE /\ sync' = resumed(sync)
               /\ sync_states' = mark_sync_finished(sync_states, "Opfs",
                                    Some("ConstraintError"), now)
               /\ streams' = f.streams
               /\ pending' = <<[queue |-> f.queue, running |-> NotRunning,
                                holds |-> f.holds]>>
               /\ last' = Op("flush_notifications", 0)
               /\ drained' = NoDrain
               /\ invoked' = {}
     /\ UNCHANGED <<listeners, keys_issued, engines, now, borrow, window,
                    snap>>

\* The sync with the remote store returns Ok (the refreshed clock is
\* recorded, mark_sync_finished(None)), Weapon::sync returns, and FlushLater
\* flushes as the call is left.
WeaponSyncEnd ==
  LET r == get_clock(db, sync.filter)
      f == flush_notifications(streams, listeners)
  IN /\ sync.pc = "refresh"
     /\ pending = <<>>
     /\ borrow = Free
     /\ ~r.panic
     /\ sync' = resumed(sync)
     /\ sync_states' =
          mark_sync_finished(update_sync_clock(sync_states, "Opfs", r.clock),
                             "Opfs", None, now)
     /\ streams' = f.streams
     /\ pending' = <<[queue |-> f.queue, running |-> NotRunning,
                      holds |-> f.holds]>>
     /\ last' = Op("flush_notifications", 0)
     /\ drained' = NoDrain
     /\ invoked' = {}
     /\ UNCHANGED <<listeners, keys_issued, engines, now, db, borrow, window,
                    snap>>

\* Weapon::add_deck_event: add_raw_event(stream, device, event, None) and
\* flush_notifications, which drains and begins to call the closures.
AddDeckEvent(stream, device, payload) ==
  LET r == add_raw_event(streams, stream, device, payload, None, now)
      f == flush_notifications(r.streams, listeners)
  IN /\ pending = <<>>
     /\ borrow = Free
     /\ streams' = f.streams
     /\ pending' = <<[queue |-> f.queue, running |-> NotRunning,
                      holds |-> f.holds]>>
     /\ last' = Op("flush_notifications", 0)
     /\ drained' = NoDrain
     /\ invoked' = {}
     /\ UNCHANGED <<listeners, keys_issued, engines, sync_states, now, db,
                    sync, borrow, window, snap>>

\* Weapon::subscribe_to_stream: register_listener, and FlushLater flushes as
\* the method is left.
SubscribeToStream ==
  LET key == slotmap_insert(listeners, keys_issued)
      f == flush_notifications(streams, listeners \cup {key})
  IN /\ pending = <<>>
     /\ borrow = Free
     /\ key <= MaxKeys
     /\ keys_issued' = IF key > keys_issued THEN key ELSE keys_issued
     /\ listeners' = listeners \cup {key}
     /\ streams' = f.streams
     /\ pending' = <<[queue |-> f.queue, running |-> NotRunning,
                      holds |-> f.holds]>>
     /\ last' = Op("flush_notifications", 0)
     /\ drained' = NoDrain
     /\ invoked' = {}
     /\ UNCHANGED <<engines, sync_states, now, db, sync, borrow, window, snap>>

\* A step of the cycle: of the loop of flush_notifications or of a sync call
\* of the listener.
CycleStep ==
  \/ CallbackStart
  \/ ListenerCallsSync
  \/ ListenerReturns
  \/ FlushEnd
  \/ WeaponSyncLoad
  \/ WeaponSyncPull
  \/ WeaponSyncSave
  \/ pending = <<>> /\ SyncSaveClock
  \/ WeaponSyncWrite
  \/ WeaponSyncEnd

\* The application appends events and subscribes a listener of its own and
\* other tabs store events, while the bounds allow; every notification of the
\* sync listener runs Weapon::sync with the listener's key; of two sync calls
\* in flight the executor polls either, and the application appends while
\* at most one is in flight, so that no more than two overlap.
NextCycle ==
  \/ Shorter(1, 1, ShortLen) /\ sync.other = <<>> /\ AddDeckEvent(1, 1, 1)
  \/ SubscribeToStream
  \/ Len(db[1][2]) < MaxCount /\ OtherTabWrites(1, 2)
  \/ pending = <<>> /\ SyncSwitch
  \/ CycleStep

SpecCycle == InitCycle /\ [][NextCycle]_vars

\* What a step of the cycle changes of the engine and the target.
cycle_vars == <<streams, sync_states, db, sync, pending>>

\* Every await of a sync call returns and the loop of flush_notifications
\* runs on: a step of the cycle that can be taken again and again is taken.
SpecCycleFair == SpecCycle /\ SF_cycle_vars(CycleStep)

\* A closure for listener k is held by a running flush_notifications.
ClosureHeld(k) ==
  \E i \in 1..Len(pending) :
    \/ pending[i].running # NotRunning /\ pending[i].running.key = k
    \/ \E j \in 1..Len(pending[i].queue) : pending[i].queue[j].key = k

\* A drain would return a closure for listener k.
ClosureDue(k) ==
  \E s \in DOMAIN streams :
    LET due == stream_notifications(s, streams[s].dirty_state, listeners)
    IN \E j \in 1..Len(due) : due[j].key = k

\* The cycle is over: no sync call of the listener is running, no closure
\* for it is held and a flush would produce none.
CycleOver ==
  /\ sync.pc = "idle"
  /\ ~ClosureHeld(SyncListener)
  /\ ~ClosureDue(SyncListener)

Unsubscribe(key) ==
  /\ pending = <<>> \/ Running
  /\ borrow = Free
  /\ UnregisterListener(key)

\* The application subscribes and unsubscribes listeners, appends and
\* flushes; a running callback appends, flushes again, unsubscribes a
\* listener (itself or another) or returns.
NextUnsubscribe ==
  \/ pending = <<>> /\ borrow = Free /\ RegisterListener
  \/ /\ pending = <<>> \/ Running
     /\ borrow = Free
     /\ Shorter(1, 1, ShortLen)
     /\ AddRawEvent(1, 1, 1, None)
  \/ Len(pending) < MaxDepth /\ Flush
  \/ CallbackStart
  \/ CallbackReturn
  \/ FlushEnd
  \/ \E k \in 1..MaxKeys : Unsubscribe(k)

SpecUnsubscribe == InitUnwatched /\ [][NextUnsubscribe]_vars

\* The closures a flush_notifications call has just taken from its drain are
\* closures of registered listeners.
DrainSkipsUnregistered ==
  (pending # <<>> /\ last.op = "flush_notifications") =>
    \A j \in 1..Len(pending[Len(pending)].queue) :
      pending[Len(pending)].queue[j].key \in listeners

\* C39: once unregister_listener(k) has returned listener k is not called
\* again: a drain returns no closure for a listener that is not registered,
\* and the closure the loop of flush_notifications has just called is not
\* one of an unregistered listener.
C39_UnregisteredListenerNotCalled ==
  /\ DrainSkipsUnregistered
  /\ \A c \in invoked : c.key \in listeners

\* The loop of flush_notifications has just called the closure of a listener
\* that was unregistered after the drain that returned the closure.
C39_Witness ==
  /\ last.op = "callback"
  /\ \E c \in invoked : c.key \in (1..keys_issued) \ listeners

\* ------------------------------------ specification: what a call leaves alone

\* EventStore::mark_sync_started(target).
MarkSyncStarted(target) ==
  /\ sync_states' = mark_sync_started(sync_states, target, now)
  /\ last' = Called("mark_sync_started", 0, [target |-> target])
  /\ drained' = NoDrain
  /\ invoked' = {}
  /\ UNCHANGED <<streams, listeners, keys_issued, engines, now, db, sync,
                 pending, borrow, window, snap>>

\* EventStore::mark_sync_finished(target, error).
MarkSyncFinished(target, error) ==
  /\ sync_states' = mark_sync_finished(sync_states, target, error, now)
  /\ last' = Called("mark_sync_finished", 0, [target |-> target])
  /\ drained' = NoDrain
  /\ invoked' = {}
  /\ UNCHANGED <<streams, listeners, keys_issued, engines, now, db, sync,
                 pending, borrow, window, snap>>

\* The clocks passed to update_sync_clock here: one event of device 1 in
\* stream 1.
FrameClocks == {1 :> (1 :> 1)}

\* The errors passed to mark_sync_finished.
FrameErrors == {Some("ConstraintError")}

\* The device whose events the callers add to stream s.
FrameDevices(s) == {s}

\* The modifiers of the calls: no listener is registered.
FrameModifiers == {None}

\* The step is a call of the operation named op.
Calls(op) == last'.op = op

\* An operation on stream s.
StreamOp(s) ==
  \/ /\ Calls("add_device_events")
     /\ \E d \in FrameDevices(s), m \in FrameModifiers :
          \E b \in Batches(s, d, 1) : AddDeviceEvents(s, d, b, m)
  \/ /\ Calls("add_device_events_jsons")
     /\ \E d \in FrameDevices(s), m \in FrameModifiers :
          \E b \in JsonBatches(s, d, 1) : AddDeviceEventsJsons(s, d, b, m)
  \/ /\ Calls("add_raw_event")
     /\ \E d \in FrameDevices(s), m \in FrameModifiers : AddRawEvent(s, d, 1, m)
  \/ /\ Calls("mark_loaded")
     /\ \E m \in FrameModifiers : MarkLoaded(s, m)

\* An operation on the sync state of a target.
SyncStateOp(target) ==
  \/ /\ Calls("update_sync_clock")
     /\ \E c \in FrameClocks : UpdateSyncClock(target, c)
  \/ Calls("mark_sync_started") /\ MarkSyncStarted(target)
  \/ /\ Calls("mark_sync_finished")
     /\ \E e \in FrameErrors : MarkSyncFinished(target, e)

\* Callers add batches to a device of stream 1, append to a device of either
\* stream and mark it loaded; notifications are drained; the sync state of either
\* target is written.
NextFrame ==
  \/ \E m \in FrameModifiers : \E d \in FrameDevices(1) :
       \E b \in Batches(1, d, 1) :
         Shorter(1, d, MaxCount) /\ AddDeviceEvents(1, d, b, m)
  \/ \E m \in FrameModifiers : \E d \in FrameDevices(1) :
       \E b \in JsonBatches(1, d, 1) :
         Shorter(1, d, MaxCount) /\ AddDeviceEventsJsons(1, d, b, m)
  \/ \E s \in Streams, m \in FrameModifiers : \E d \in FrameDevices(s) :
       Shorter(s, d, MaxCount) /\ AddRawEvent(s, d, 1, m)
  \/ \E s \in Streams, m \in FrameModifiers : MarkLoaded(s, m)
  \/ Drain
  \/ \E target \in SyncTargets, c \in FrameClocks :
       /\ last.op = "update_sync_clock" => last.args.calls < MaxUpdates
       /\ UpdateSyncClock(target, c)
  \/ \E target \in SyncTargets : MarkSyncStarted(target)
  \/ \E target \in SyncTargets, e \in FrameErrors : MarkSyncFinished(target, e)

SpecFrame == InitUnrecorded /\ [][NextFrame]_vars

\* The step leaves every stream other than s as it was: none is created or
\* removed, and its events, dirty state and loaded flag are unchanged.
OtherStreamsUntouched(s) ==
  \A t \in Streams \ {s} :
    /\ (t \in DOMAIN streams') = (t \in DOMAIN streams)
    /\ t \in DOMAIN streams => streams'[t] = streams[t]

\* The step leaves the sync state of every target other than the one named
\* as it was.
OtherTargetsUntouched(target) ==
  \A t \in SyncTargets \ {target} :
    /\ (t \in DOMAIN sync_states') = (t \in DOMAIN sync_states)
    /\ t \in DOMAIN sync_states => sync_states'[t] = sync_states[t]

\* C40: a step of add_device_events, add_device_events_jsons, add_raw_event
\* or mark_loaded on one stream leaves every other stream's events, dirty
\* state and loaded flag unchanged; a step of update_sync_clock,
\* mark_sync_started or mark_sync_finished leaves every stream (events, dirty
\* state, loaded flag) and every other target's SyncState unchanged.
C40_CallsChangeOnlyTheirTarget ==
  [][/\ \A s \in Streams : StreamOp(s) => OtherStreamsUntouched(s)
     /\ \A target \in SyncTargets :
          SyncStateOp(target) =>
            streams' = streams /\ OtherTargetsUntouched(target)]_vars

\* add_raw_event has just added an event to stream 1 while stream 2 holds an
\* event, is marked loaded and is dirty, and both targets have a sync state,
\* one started and one finished with an error.
C40_Witness ==
  /\ last.op = "add_raw_event"
  /\ last.args.stream = 1
  /\ DOMAIN streams = Streams
  /\ len_device(streams[2].store, 2) = 1
  /\ streams[2].loaded_at_least_once
  /\ streams[2].dirty_state # Clean
  /\ ~streams[1].loaded_at_least_once
  /\ DOMAIN sync_states = SyncTargets
  /\ sync_states["Opfs"].last_sync_started # None
  /\ sync_states["Supabase"].last_sync_error # None

====
